---- MODULE Spec2Model ----
(***************************************************************************)
(* Safe cross-language rename pipeline: the rename orchestrator            *)
(* (performSafeRename, batchRename) over the three language backends.      *)
(*                                                                         *)
(* A file's text is a sequence of identifier tokens, one per line.  A      *)
(* path is a sequence of path pieces, so that `${filePath}.backup` is      *)
(* Append(filePath, ".backup").  A message text is a sequence of words.    *)
(* The file system maps the paths that exist to their text.                *)
(***************************************************************************)
EXTENDS Naturals, Integers, Sequences, FiniteSets, TLC

\* ------------------------------------------------------------------ bounds
MaxLen == 2
MaxCalls == 2

\* ------------------------------------------------------------- input sets
Names == {"a", "b"}
Targets == {<<"f1">>, <<"f2">>}
OtherFile == <<"lib">>
Languages == {"typescript", "javascript", "python", "go", "ruby"}

SeqsUpTo(S, n) == UNION {[1..k -> S] : k \in 0..n}
Contents == SeqsUpTo(Names, MaxLen)

\* NamingSuggestion, as far as the orchestrator reads it
Suggestions == {s \in [oldName : Names, newName : Names] : s.oldName # s.newName}

\* one element of batchRename's `renames`; the line hint is read by the Go
\* backend only
Requests ==
  {r \in [filePath : Targets, suggestion : Suggestions, language : Languages,
          lineNumber : 1..MaxLen] : r.language # "go" => r.lineNumber = 1}

None == [none |-> TRUE]

\* ------------------------------------------------------------------ texts
\* String(error) of an Error object: "Error: <message>"
StringOf(error) == <<"Error:">> \o error.message

ErrBackup == <<"Failed", "to", "create", "backup">>
ErrVerification == <<"Verification", "failed", "after", "rename">>
ErrUnsupported(language) == <<"Unsupported", "language:", language>>
ErrSymbolNotFound == <<"Symbol", "not", "found">>
ErrTsNotFound(oldName) == <<"Symbol", oldName, "not", "found">>

\* String.prototype.includes, on words
Includes(text, word) == \E i \in 1..Len(text) : text[i] = word

\* exceptions raised by the file system and by the external tools
ECopy == [message |-> <<"EACCES:", "copyfile">>]
EUnlink == [message |-> <<"EPERM:", "unlink">>]
ERead == [message |-> <<"EIO:", "read">>]
EWrite == [message |-> <<"ENOSPC:", "write">>]
ETool == [message |-> <<"Command", "failed">>]
EMorph == [message |-> <<"rename", "refused">>]
EVerify == [message |-> <<"spawn", "failed">>]
\* `${lineNumber}` inside a message
NumText(n) == <<"0", "1", "2", "3", "4", "5">>[n + 1]
ELine(n) == [message |-> <<"Line", "number", NumText(n), "exceeds", "file", "length">>]
EColumn(oldName, n) ==
  [message |-> <<"Symbol", oldName, "not", "found", "on", "line", NumText(n)>>]

\* ------------------------------------------------------------ file system
BackupPath(filePath) == Append(filePath, ".backup")

Exists(fs, p) == p \in DOMAIN fs

\* fs.writeFile / a completed fs.copyFile: the destination holds the text
WriteFile(fs, p, text) ==
  [q \in DOMAIN fs \cup {p} |-> IF q = p THEN text ELSE fs[q]]

CopyFile(fs, src, dst) == WriteFile(fs, dst, fs[src])

Unlink(fs, p) == [q \in DOMAIN fs \ {p} |-> fs[q]]

\* --------------------------------------------------------- text operations
\* content.replace(/\bold\b/g, new)
ReplaceAll(text, oldName, newName) ==
  [i \in 1..Len(text) |-> IF text[i] = oldName THEN newName ELSE text[i]]

\* (content.match(/\bname\b/g) || []).length
CountMatches(text, name) == Cardinality({i \in 1..Len(text) : text[i] = name})

\* ------------------------------------------------------------ the results
Failed(filePath, oldName, newName, error) ==
  [success |-> FALSE, file |-> filePath, oldName |-> oldName,
   newName |-> newName, referencesUpdated |-> 0, error |-> error]

Succeeded(filePath, oldName, newName, n) ==
  [success |-> TRUE, file |-> filePath, oldName |-> oldName,
   newName |-> newName, referencesUpdated |-> n]

\* what a backend leaves behind: its result and the file system after it
Ran(result, fs) == [result |-> result, files |-> fs]

\* ------------------------------------------------- tree-capable backend
\* findSymbolDeclarations: the declarations named symbolName, in file order
FindSymbolDeclarations(text, symbolName) ==
  {i \in 1..Len(text) : text[i] = symbolName}

TsEnv == {"ok", "readFails", "renameThrows", "writeFails", "writeTorn"}

\* renameTsSymbol: every exception is caught inside and becomes a failed result
RenameTsSymbol(fs, filePath, oldName, newName, env) ==
  IF env = "readFails" \/ ~Exists(fs, filePath)
  THEN Ran(Failed(filePath, oldName, newName, StringOf(ERead)), fs)
  ELSE IF FindSymbolDeclarations(fs[filePath], oldName) = {}
  THEN Ran(Failed(filePath, oldName, newName, ErrTsNotFound(oldName)), fs)
  ELSE IF env = "renameThrows"
  THEN Ran(Failed(filePath, oldName, newName,
                  <<"Rename", "failed:">> \o StringOf(EMorph)), fs)
  ELSE IF env = "writeFails"
  THEN Ran(Failed(filePath, oldName, newName,
                  <<"Rename", "failed:">> \o StringOf(EWrite)), fs)
  ELSE IF env = "writeTorn"
  THEN Ran(Failed(filePath, oldName, newName,
                  <<"Rename", "failed:">> \o StringOf(EWrite)),
           WriteFile(fs, filePath, <<>>))
  ELSE LET newText == ReplaceAll(fs[filePath], oldName, newName)
       IN Ran(Succeeded(filePath, oldName, newName, CountMatches(newText, newName)),
              WriteFile(fs, filePath, newText))

VerifyEnv == {"clean", "warning", "errors", "throws"}

\* verifyTsCompilation: any diagnostic, or an exception, is false
VerifyTsCompilation(fs, filePath, env) == env = "clean"

\* ------------------------------------------------------ fallback backends
FallbackEnv == {"ok", "readFails", "writeFails", "writeTorn"}

\* fallbackPythonRename: whole-word substitution in the one file
FallbackPythonRename(fs, filePath, oldName, newName, env) ==
  IF env = "readFails" \/ ~Exists(fs, filePath)
  THEN Ran(Failed(filePath, oldName, newName, StringOf(ERead)), fs)
  ELSE LET referencesUpdated == CountMatches(fs[filePath], oldName)
       IN IF referencesUpdated = 0
          THEN Ran(Failed(filePath, oldName, newName, ErrSymbolNotFound), fs)
          ELSE IF env = "writeFails"
          THEN Ran(Failed(filePath, oldName, newName, StringOf(EWrite)), fs)
          ELSE IF env = "writeTorn"
          THEN Ran(Failed(filePath, oldName, newName, StringOf(EWrite)),
                   WriteFile(fs, filePath, <<>>))
          ELSE Ran(Succeeded(filePath, oldName, newName, referencesUpdated),
                   WriteFile(fs, filePath,
                             ReplaceAll(fs[filePath], oldName, newName)))

\* mutant of FallbackGoRename: the new name is counted after the substitution
FallbackCountsNew(fs, filePath, oldName, newName, env) ==
  IF env = "readFails" \/ ~Exists(fs, filePath)
  THEN Ran(Failed(filePath, oldName, newName, StringOf(ERead)), fs)
  ELSE IF CountMatches(fs[filePath], oldName) = 0
  THEN Ran(Failed(filePath, oldName, newName, ErrSymbolNotFound), fs)
  ELSE IF env = "writeFails"
  THEN Ran(Failed(filePath, oldName, newName, StringOf(EWrite)), fs)
  ELSE IF env = "writeTorn"
  THEN Ran(Failed(filePath, oldName, newName, StringOf(EWrite)),
           WriteFile(fs, filePath, <<>>))
  ELSE LET newText == ReplaceAll(fs[filePath], oldName, newName)
       IN Ran(Succeeded(filePath, oldName, newName, CountMatches(newText, newName)),
              WriteFile(fs, filePath, newText))

\* fallbackGoRename: the same substitution
FallbackGoRename(fs, filePath, oldName, newName, env) ==
  IF env = "readFails" \/ ~Exists(fs, filePath)
  THEN Ran(Failed(filePath, oldName, newName, StringOf(ERead)), fs)
  ELSE LET referencesUpdated == CountMatches(fs[filePath], oldName)
       IN IF referencesUpdated = 0
          THEN Ran(Failed(filePath, oldName, newName, ErrSymbolNotFound), fs)
          ELSE IF env = "writeFails"
          THEN Ran(Failed(filePath, oldName, newName, StringOf(EWrite)), fs)
          ELSE IF env = "writeTorn"
          THEN Ran(Failed(filePath, oldName, newName, StringOf(EWrite)),
                   WriteFile(fs, filePath, <<>>))
          ELSE Ran(Succeeded(filePath, oldName, newName, referencesUpdated),
                   WriteFile(fs, filePath,
                             ReplaceAll(fs[filePath], oldName, newName)))

\* -------------------------------------------------- external-tool backends
\* The refactoring engine renames across the project: the target file and
\* the other files of the project that refer to the symbol.
ProjectRename(fs, filePath, oldName, newName) ==
  [p \in DOMAIN fs |->
     IF p \in {filePath, OtherFile} THEN ReplaceAll(fs[p], oldName, newName)
     ELSE fs[p]]

\* the engine stopped after rewriting the target file only
TornRename(fs, filePath, oldName, newName) ==
  WriteFile(fs, filePath, ReplaceAll(fs[filePath], oldName, newName))

ToolEnv == {"ok", "readFails", "toolFails", "toolTorn", "rereadFails",
            "writeFails", "writeTorn"}

\* mutant of RenamePythonSymbol: without rope the rename fails
RopeRequired(fs, filePath, oldName, newName, installed, env) ==
  IF ~installed
  THEN Ran(Failed(filePath, oldName, newName, StringOf(ETool)), fs)
  ELSE FallbackPythonRename(fs, filePath, oldName, newName,
                            IF env \in FallbackEnv THEN env ELSE "ok")

\* renamePythonSymbol: rope when it can be imported, else the fallback
RenamePythonSymbol(fs, filePath, oldName, newName, installed, env) ==
  IF ~installed
  THEN FallbackPythonRename(fs, filePath, oldName, newName,
                            IF env \in FallbackEnv THEN env ELSE "ok")
  ELSE IF ~Exists(fs, filePath) \/ env = "toolFails"
          \/ CountMatches(fs[filePath], oldName) = 0
  THEN Ran(Failed(filePath, oldName, newName, StringOf(ETool)), fs)
  ELSE IF env = "toolTorn"
  THEN Ran(Failed(filePath, oldName, newName, StringOf(ETool)),
           TornRename(fs, filePath, oldName, newName))
  ELSE LET after == ProjectRename(fs, filePath, oldName, newName)
       IN IF env = "rereadFails"
          THEN Ran(Failed(filePath, oldName, newName, StringOf(ERead)), after)
          ELSE Ran(Succeeded(filePath, oldName, newName,
                             CountMatches(after[filePath], newName)), after)

\* verifyPythonSyntax: any stderr output, or an exception, is false
VerifyPythonSyntax(fs, filePath, env) == env = "clean"

\* renameGoSymbol: gopls when it runs, else the fallback
RenameGoSymbol(fs, filePath, oldName, newName, lineNumber, installed, env) ==
  IF ~installed
  THEN FallbackGoRename(fs, filePath, oldName, newName,
                        IF env \in FallbackEnv THEN env ELSE "ok")
  ELSE IF env = "readFails" \/ ~Exists(fs, filePath)
  THEN Ran(Failed(filePath, oldName, newName, StringOf(ERead)), fs)
  ELSE IF lineNumber > Len(fs[filePath])
  THEN Ran(Failed(filePath, oldName, newName, StringOf(ELine(lineNumber))), fs)
  ELSE IF fs[filePath][lineNumber] # oldName
  THEN Ran(Failed(filePath, oldName, newName,
                  StringOf(EColumn(oldName, lineNumber))), fs)
  ELSE IF env = "toolFails"
  THEN Ran(Failed(filePath, oldName, newName, StringOf(ETool)), fs)
  ELSE IF env = "toolTorn"
  THEN Ran(Failed(filePath, oldName, newName, StringOf(ETool)),
           TornRename(fs, filePath, oldName, newName))
  ELSE LET after == ProjectRename(fs, filePath, oldName, newName)
       IN IF env = "rereadFails"
          THEN Ran(Failed(filePath, oldName, newName, StringOf(ERead)), after)
          ELSE Ran(Succeeded(filePath, oldName, newName,
                             CountMatches(after[filePath], newName)), after)

\* verifyGoCompilation: stderr without 'warning', or an exception, is false
VerifyGoCompilation(fs, filePath, env) == env \in {"clean", "warning"}

\* ------------------------------------------------------------------ state
VARIABLES
  files,     \* the file system: path -> text, for the paths that exist
  calls,     \* the number of performSafeRename calls begun so far
  batchSize, \* batchRename: the length of the list `renames` it was given
  index,     \* batchRename: how many requests the for-of loop has taken
  results,   \* batchRename: the outcomes collected so far
  pc,        \* where control is
  req,       \* performSafeRename: its arguments
  result,    \* performSafeRename: `result`, the backend's rename result
  error,     \* performSafeRename: the exception the catch clause caught
  outcome,   \* performSafeRename: the value it returned
  pre,       \* history: the file system when the call began
  thrown,    \* history: the exceptions raised during the call, in order
  trace      \* history: the file and backend operations of the call, in order

\* the suggestion client (llm/client.ts)
VARIABLES
  environment,   \* process.env: is BLACKBOX_API_KEY set, and MAX_RETRIES
  responseCache, \* the Map: cache key -> CacheEntry, for the keys it has
  apiCalls,      \* costStats.apiCalls
  now,           \* Date.now(), in milliseconds
  askPc,         \* askLLM: where control is
  context,       \* askLLM: its argument
  attempt,       \* askLLM: the loop variable
  lastError,     \* askLLM: `lastError`
  answer,        \* askLLM: the value it returned
  asks,          \* the number of askLLM calls begun so far
  ticks,         \* the number of times the clock was advanced between steps
  start,         \* history: the cache, apiCalls and clock when the call began
  fresh,         \* history: per context, the last suggestion a request gave it
                 \* since the cache was last cleared
  requests,      \* history: the external requests of the call, each with its
                 \* attempt and what came of it
  slept,         \* history: the waits of the call, <<attempt, milliseconds>>
  logged,        \* history: the error-level log entries of the call
  totalTokens,   \* costStats.totalTokens
  estimatedCost, \* costStats.estimatedCost, in hundred-millionths of a dollar
  cacheHitRate,  \* costStats.cacheHitRate, a ratio
  reported       \* history: what getCostStats last returned since the last
                 \* resetCostStats, or that a reset came last

costVars == <<totalTokens, estimatedCost, cacheHitRate, reported>>

clientVars ==
  <<environment, responseCache, apiCalls, now, askPc, context, attempt, lastError,
    answer, asks, ticks, start, fresh, requests, slept, logged, costVars>>

\* the pipeline drivers (github/review.ts, github/autofix.ts)
VARIABLES
  mode,               \* which driver runs: runReview or runAutofix
  runPc,              \* the driver: where control is
  pull,               \* the answer of octokit.pulls.get for the pull request
  pr,                 \* `pr`, the PullRequest that getPullRequest returned
  contexts,           \* `contexts`
  cursor,             \* the position of the loop under way
  allSuggestions,     \* `suggestions` of runReview, `allSuggestions` of runAutofix
  autofixSuggestions, \* `autofixSuggestions`
  renameResults,      \* `renameResults`
  modifiedFiles,      \* the keys of `modifiedFiles`
  steps               \* history: the calls the driver made, in order

driverVars ==
  <<mode, runPc, pull, pr, contexts, cursor, allSuggestions, autofixSuggestions,
    renameResults, modifiedFiles, steps>>

\* a language backend called by itself (python-renamer.ts, go-renamer.ts)
VARIABLES
  job,      \* the call: the request and the project's files when it is made
  toolRan,  \* what the call left: was the tool installed, the result, the files
  commands  \* history: the commands the call executed, in order

backendVars == <<job, toolRan, commands>>

\* the diff parser called by itself (context/diff-parser.ts)
VARIABLES
  parseCall,   \* the arguments of parseDiff
  prDiff,      \* what parseDiff returned
  extractCall, \* the arguments of extractIdentifiers
  identifiers  \* what extractIdentifiers returned

diffVars == <<parseCall, prDiff, extractCall, identifiers>>

\* the rename loop of runAutofix with the orchestrator under it
\* (github/autofix.ts)
VARIABLES
  modifiedContent, \* `modifiedFiles`: path -> content, for the keys it has
  commits          \* history: the `files` of each call of commitChanges

autofixVars == <<modifiedContent, commits>>

\* askLLM calls that overlap: several begun before the first has returned
\* (llm/client.ts)
VARIABLES
  flights \* the askLLM calls begun so far, in the order they began: each
          \* call's locals and the history of what it did

overlapVars == <<flights>>

\* the symbol extractor, the renamer of the tree tier and the loop of the
\* context builder (context/symbol-extractor.ts, rename/typescript-renamer.ts,
\* context/context-builder.ts)
VARIABLES
  symbolCall, \* the arguments of extractSymbolInfo
  symbolInfo, \* what extractSymbolInfo did: the value returned, or it raised
  tsRenamed,  \* what renameTsSymbol did for the same name and file
  builder     \* buildContextsFromPR: the loop over the identifiers of a file

symbolVars == <<symbolCall, symbolInfo, tsRenamed, builder>>

toolVars == <<backendVars, diffVars, autofixVars, overlapVars, symbolVars>>

renameVars ==
  <<files, calls, batchSize, index, results, pc, req, result, error, outcome, pre,
    thrown, trace>>

vars == <<renameVars, clientVars, driverVars, toolVars>>

Did(op, ok) == <<op, ok>>

\* --------------------------------------------------------- the orchestrator
\* the backend's rename, by language (the first switch)
RenameEnv(language) ==
  CASE language \in {"typescript", "javascript"} -> TsEnv
    [] language \in {"python", "go"} -> ToolEnv
    [] OTHER -> {"ok"}

DispatchRename(fs, r, installed, env) ==
  CASE r.language \in {"typescript", "javascript"} ->
         RenameTsSymbol(fs, r.filePath, r.suggestion.oldName, r.suggestion.newName, env)
    [] r.language = "python" ->
         RenamePythonSymbol(fs, r.filePath, r.suggestion.oldName,
                            r.suggestion.newName, installed, env)
    [] r.language = "go" ->
         RenameGoSymbol(fs, r.filePath, r.suggestion.oldName, r.suggestion.newName,
                        r.lineNumber, installed, env)
    [] OTHER ->
         Ran(Failed(r.filePath, r.suggestion.oldName, r.suggestion.newName,
                    ErrUnsupported(r.language)), fs)

\* the backend's verify, by language (the second switch)
DispatchVerify(fs, r, env) ==
  CASE r.language \in {"typescript", "javascript"} ->
         VerifyTsCompilation(fs, r.filePath, env)
    [] r.language = "python" -> VerifyPythonSyntax(fs, r.filePath, env)
    [] r.language = "go" -> VerifyGoCompilation(fs, r.filePath, env)
    [] OTHER -> FALSE

\* mutants of Restore: the copy left out; the copy with its arguments swapped;
\* the backup copied over every target of the batch
RestoreNothing(fs, filePath) == fs
RestoreWrongWay(fs, filePath) == CopyFile(fs, filePath, BackupPath(filePath))
RestoreEveryTarget(fs, filePath) ==
  [p \in DOMAIN fs |-> IF p \in Targets THEN fs[BackupPath(filePath)] ELSE fs[p]]

\* fs.copyFile(backupPath, filePath)
Restore(fs, filePath) == CopyFile(fs, BackupPath(filePath), filePath)

\* mutant of VerificationFailed: the spread without its two overrides
KeepsResult(r) == r

\* { ...result, success: false, error: 'Verification failed after rename' }
VerificationFailed(r) ==
  [success |-> FALSE, file |-> r.file, oldName |-> r.oldName, newName |-> r.newName,
   referencesUpdated |-> r.referencesUpdated, error |-> ErrVerification]

BackupFailed(r) ==
  Failed(r.filePath, r.suggestion.oldName, r.suggestion.newName, ErrBackup)

\* mutant of Caught: the restore's exception reported, not the caught one
CaughtMasked(r, e) ==
  Failed(r.filePath, r.suggestion.oldName, r.suggestion.newName, StringOf(ECopy))

\* the outcome the catch clause returns
Caught(r, e) ==
  Failed(r.filePath, r.suggestion.oldName, r.suggestion.newName, StringOf(e))

\* the step to a return of performSafeRename
Return(value) == outcome' = value /\ pc' = "returned"

\* the step into the catch clause
Throw(e) == error' = e /\ pc' = "emergencyCopy"

\* history of the step: the operations done and the exceptions raised
Log(events, exceptions) ==
  /\ trace' = trace \o events
  /\ thrown' = thrown \o exceptions

batchVars == <<calls, batchSize, index, results>>

\* the variables of the other components
outsideRename == <<clientVars, driverVars, toolVars>>

\* mutant of Backup: no return in the catch of the backup copy
BackupContinues ==
  /\ pc = "backup"
  /\ \E ok \in BOOLEAN :
       IF ok /\ Exists(files, req.filePath)
       THEN /\ files' = CopyFile(files, req.filePath, BackupPath(req.filePath))
            /\ Log(<<Did("backup", TRUE)>>, <<>>)
       ELSE /\ Log(<<Did("backup", FALSE)>>, <<ECopy>>)
            /\ UNCHANGED files
  /\ pc' = "rename"
  /\ UNCHANGED <<batchVars, req, result, error, outcome, pre>>

\* await fs.copyFile(filePath, backupPath), and the early return when it throws
Backup ==
  /\ pc = "backup"
  /\ \E ok \in BOOLEAN :
       IF ok /\ Exists(files, req.filePath)
       THEN /\ files' = CopyFile(files, req.filePath, BackupPath(req.filePath))
            /\ pc' = "rename"
            /\ Log(<<Did("backup", TRUE)>>, <<>>)
            /\ UNCHANGED outcome
       ELSE /\ Return(BackupFailed(req))
            /\ Log(<<Did("backup", FALSE)>>, <<ECopy>>)
            /\ UNCHANGED files
  /\ UNCHANGED <<batchVars, req, result, error, pre>>

\* mutant of Rename: a failed rename is tried again
RenameRetries ==
  /\ pc = "rename"
  /\ \E installed \in BOOLEAN, env \in RenameEnv(req.language) :
       LET ran == DispatchRename(files, req, installed, env)
       IN /\ files' = ran.files
          /\ result' = ran.result
          /\ pc' = IF ~ran.result.success THEN "rename" ELSE "verify"
          /\ Log(<<Did("rename", ran.result.success)>>, <<>>)
  /\ UNCHANGED <<batchVars, req, error, outcome, pre>>

\* result = await rename...(...), and the test of result.success
Rename ==
  /\ pc = "rename"
  /\ \E installed \in BOOLEAN, env \in RenameEnv(req.language) :
       LET ran == DispatchRename(files, req, installed, env)
       IN /\ files' = ran.files
          /\ result' = ran.result
          /\ pc' = IF ~ran.result.success THEN "restoreRename" ELSE "verify"
          /\ Log(<<Did("rename", ran.result.success)>>, <<>>)
  /\ UNCHANGED <<batchVars, req, error, outcome, pre>>

\* a restoring fs.copyFile of the try block, at `here`
RestoreStep(here, next) ==
  /\ pc = here
  /\ \E ok \in BOOLEAN :
       IF ok /\ Exists(files, BackupPath(req.filePath))
       THEN /\ files' = Restore(files, req.filePath)
            /\ pc' = next
            /\ Log(<<Did("restore", TRUE)>>, <<>>)
            /\ UNCHANGED error
       ELSE /\ Throw(ECopy)
            /\ Log(<<Did("restore", FALSE)>>, <<ECopy>>)
            /\ UNCHANGED files
  /\ UNCHANGED <<batchVars, req, result, outcome, pre>>

\* an fs.unlink(backupPath) of the try block, at `here`, and the return after it
UnlinkStep(here, value) ==
  /\ pc = here
  /\ \E ok \in BOOLEAN :
       IF ok /\ Exists(files, BackupPath(req.filePath))
       THEN /\ files' = Unlink(files, BackupPath(req.filePath))
            /\ Return(value)
            /\ Log(<<Did("unlink", TRUE)>>, <<>>)
            /\ UNCHANGED error
       ELSE /\ Throw(EUnlink)
            /\ Log(<<Did("unlink", FALSE)>>, <<EUnlink>>)
            /\ UNCHANGED <<files, outcome>>
  /\ UNCHANGED <<batchVars, req, result, pre>>

\* mutant of UnlinkAfterRename: a generic failure returned, not the backend's
UnlinkAfterRenameGeneric ==
  UnlinkStep("unlinkRename",
             Failed(req.filePath, req.suggestion.oldName, req.suggestion.newName,
                    <<"Rename", "failed">>))

\* if (!result.success): restore, unlink, return result
RestoreAfterRename == RestoreStep("restoreRename", "unlinkRename")
UnlinkAfterRename == UnlinkStep("unlinkRename", result)

\* mutant of Verify: isValid computed and not tested
VerifyUnchecked ==
  /\ pc = "verify"
  /\ \E env \in VerifyEnv :
       LET isValid == DispatchVerify(files, req, env)
       IN /\ pc' = "unlinkCommit"
          /\ Log(<<Did("verify", isValid)>>,
                 IF env = "throws" THEN <<EVerify>> ELSE <<>>)
  /\ UNCHANGED <<files, batchVars, req, result, error, outcome, pre>>

\* isValid = await verify...(...), and the test of isValid
Verify ==
  /\ pc = "verify"
  /\ \E env \in VerifyEnv :
       LET isValid == DispatchVerify(files, req, env)
       IN /\ pc' = IF ~isValid THEN "restoreVerify" ELSE "unlinkCommit"
          /\ Log(<<Did("verify", isValid)>>,
                 IF env = "throws" THEN <<EVerify>> ELSE <<>>)
  /\ UNCHANGED <<files, batchVars, req, result, error, outcome, pre>>

\* if (!isValid): restore, unlink, return the result marked failed
RestoreAfterVerify == RestoreStep("restoreVerify", "unlinkVerify")
UnlinkAfterVerify == UnlinkStep("unlinkVerify", VerificationFailed(result))

\* mutant of UnlinkCommit: the result is returned and the backup is kept
CommitKeepsBackup ==
  /\ pc = "unlinkCommit"
  /\ Return(result)
  /\ Log(<<Did("unlink", TRUE)>>, <<>>)
  /\ UNCHANGED <<files, error, batchVars, req, result, pre>>

\* success: unlink, return result
UnlinkCommit == UnlinkStep("unlinkCommit", result)

\* catch (error): the inner try's fs.copyFile(backupPath, filePath); when it
\* throws, the inner catch logs it and the outcome is returned
EmergencyCopy ==
  /\ pc = "emergencyCopy"
  /\ \E ok \in BOOLEAN :
       IF ok /\ Exists(files, BackupPath(req.filePath))
       THEN /\ files' = Restore(files, req.filePath)
            /\ pc' = "emergencyUnlink"
            /\ Log(<<Did("emergencyCopy", TRUE)>>, <<>>)
            /\ UNCHANGED outcome
       ELSE /\ Return(Caught(req, error))
            /\ Log(<<Did("emergencyCopy", FALSE)>>, <<ECopy>>)
            /\ UNCHANGED files
  /\ UNCHANGED <<batchVars, req, result, error, pre>>

\* catch (error): the inner try's fs.unlink(backupPath), and the return
EmergencyUnlink ==
  /\ pc = "emergencyUnlink"
  /\ \E ok \in BOOLEAN :
       IF ok /\ Exists(files, BackupPath(req.filePath))
       THEN /\ files' = Unlink(files, BackupPath(req.filePath))
            /\ Log(<<Did("emergencyUnlink", TRUE)>>, <<>>)
       ELSE /\ Log(<<Did("emergencyUnlink", FALSE)>>, <<EUnlink>>)
            /\ UNCHANGED files
  /\ Return(Caught(req, error))
  /\ UNCHANGED <<batchVars, req, result, error, pre>>

callVars == <<req, result, error, outcome, pre, thrown, trace>>

\* ------------------------------------------------------------ batchRename
\* mutant of StopsBatch: the break left out
NeverStops(value) == FALSE

\* if (!result.success) break
StopsBatch(value) == ~value.success

\* batchRename(renames): results = []
BatchRename ==
  /\ pc \in {"idle", "done"}
  /\ \E n \in 0..(MaxCalls - calls) :
       /\ batchSize' = n
       /\ index' = 0
       /\ results' = <<>>
       /\ pc' = "loop"
  /\ UNCHANGED <<files, calls, callVars>>

\* for (const rename of renames): the next request, and the call of
\* performSafeRename with it
Call ==
  /\ pc = "loop"
  /\ index < batchSize
  /\ index' = index + 1
  /\ \E r \in Requests : req' = r
  /\ calls' = calls + 1
  /\ pc' = "backup"
  /\ pre' = files
  /\ trace' = <<>>
  /\ thrown' = <<>>
  /\ UNCHANGED <<files, batchSize, results, result, error, outcome>>

\* mutant of Push: the outcome is put in front of the earlier ones
PushFront ==
  /\ pc = "returned"
  /\ results' = <<outcome>> \o results
  /\ pc' = IF StopsBatch(outcome) THEN "done" ELSE "loop"
  /\ req' = None
  /\ result' = None
  /\ error' = None
  /\ outcome' = None
  /\ pre' = None
  /\ trace' = <<>>
  /\ thrown' = <<>>
  /\ UNCHANGED <<files, calls, batchSize, index>>

\* results.push(result), and the break on a failure; the call's frame is gone
Push ==
  /\ pc = "returned"
  /\ results' = Append(results, outcome)
  /\ pc' = IF StopsBatch(outcome) THEN "done" ELSE "loop"
  /\ req' = None
  /\ result' = None
  /\ error' = None
  /\ outcome' = None
  /\ pre' = None
  /\ trace' = <<>>
  /\ thrown' = <<>>
  /\ UNCHANGED <<files, calls, batchSize, index>>

\* the loop is over: return results
BatchReturn ==
  /\ pc = "loop"
  /\ index = batchSize
  /\ pc' = "done"
  /\ UNCHANGED <<files, batchVars, callVars>>

\* ------------------------------------------------- the suggestion client
\* llm/client.ts, llm/schema.ts, llm/config.ts.  A string is a sequence of
\* characters; a confidence is a number of hundredths (85 is 0.85).

\* bounds of the client's inputs
MaxRetries == 2
MaxAsks == 2
MaxTicks == 2

\* const CACHE_TTL = 3600000
CACHE_TTL == 3600000

\* askLLM's null
Null == [null |-> TRUE]

Chars(n) == [i \in 1..n |-> "x"]

\* NamingContext: the fields of the cache key, and one of those outside it
ContextOf(file, usages) ==
  [file |-> file, oldName |-> <<"a">>, declaration |-> <<"l", "e", "t">>,
   usages |-> usages]

Contexts ==
  {ContextOf(<<"f", "1">>, 0), ContextOf(<<"f", "1">>, 1), ContextOf(<<"f", "2">>, 0)}

\* NamingSuggestion.safety
Safeties == [isApiSurface : BOOLEAN, shouldAutofix : BOOLEAN, reason : {<<>>}]
Eligible == [isApiSurface |-> FALSE, shouldAutofix |-> TRUE, reason |-> <<>>]

AlternativesOf(n) == [i \in 1..n |-> <<"b">>]

\* two payloads at the edges of what the rules accept
BasePayloads ==
  {[oldName |-> <<"a">>, newName |-> <<"b">>, confidence |-> 30,
    rationale |-> Chars(10), safety |-> Eligible, alternatives |-> AlternativesOf(1)],
   [oldName |-> <<"a">>, newName |-> <<"_", "$", "1">>, confidence |-> 100,
    rationale |-> Chars(10), safety |-> Eligible, alternatives |-> AlternativesOf(5)]}

\* values just outside the rules
WrongNames == {<<"a">>, <<"1", "a">>, <<"b", "-">>, <<>>}
WrongConfidences == {-5, 0, 29, 105}
WrongRationales == {<<>>, Chars(9)}
WrongAlternatives == {AlternativesOf(0), AlternativesOf(6)}

\* the JSON objects of the schema's shape that the service may answer: a
\* payload above, or one with one or two of its fields outside the rules
VariantsOf(b) ==
  {[b EXCEPT !.newName = n, !.confidence = c] :
     n \in WrongNames \cup {b.newName}, c \in WrongConfidences \cup {b.confidence}}
  \cup {[b EXCEPT !.rationale = r, !.alternatives = a] :
     r \in WrongRationales \cup {b.rationale},
     a \in WrongAlternatives \cup {b.alternatives}}

Payloads == UNION {VariantsOf(b) : b \in BasePayloads}

\* a payload that the rules accept and that names another symbol than the
\* one of the context
Misnamed ==
  [oldName |-> <<"c">>, newName |-> <<"b">>, confidence |-> 100,
   rationale |-> Chars(10), safety |-> Eligible, alternatives |-> AlternativesOf(1)]

\* a JSON object that lacks fields of the schema
Incomplete == [oldName |-> <<"a">>, newName |-> <<"b">>]

\* the pieces of a completion's text: the markdown fences (three backticks,
\* tagged json or bare) and prose
JsonFence == [fence |-> "json"]
BareFence == [fence |-> "bare"]
Prose == [text |-> "Sure!"]

\* response.choices[0]?.message?.content: a text is a sequence of pieces, the
\* empty text is the missing content
Texts ==
  {<<>>, <<Prose>>, <<Incomplete>>, <<Misnamed>>}
    \cup {<<p>> : p \in Payloads}
    \cup {<<JsonFence, p, BareFence>> : p \in BasePayloads}
    \cup {<<BareFence, p, BareFence>> : p \in BasePayloads}

\* what openai.chat.completions.create does: it rejects, or answers with a text
Responses ==
  {[rejected |-> TRUE]} \cup {[rejected |-> FALSE, content |-> t] : t \in Texts}

\* a payload of the schema's shape, as the one text of a response
Answers(payload) == [rejected |-> FALSE, content |-> <<payload>>]

ERequest == [message |-> <<"Connection", "error.">>]
EEmpty == [message |-> <<"Empty", "response", "from", "LLM">>]
EInvalidJson == [message |-> <<"Invalid", "JSON", "response", "from", "LLM">>]
EConfig ==
  [message |-> <<"BLACKBOX_API_KEY", "environment", "variable", "is", "required">>]

\* ---- llm/schema.ts
\* NamingSuggestionSchema.parse accepts the object
NamingSuggestionSchema(parsed) ==
  /\ {"oldName", "newName", "confidence", "rationale", "safety", "alternatives"}
       \subseteq DOMAIN parsed
  /\ parsed.confidence >= 0
  /\ parsed.confidence <= 100
  /\ Len(parsed.alternatives) >= 1
  /\ Len(parsed.alternatives) <= 5

\* JSON.parse accepts the text: it is one JSON value and nothing else
IsJson(cleaned) ==
  /\ Len(cleaned) = 1
  /\ "fence" \notin DOMAIN cleaned[1]
  /\ "text" \notin DOMAIN cleaned[1]

\* the two replace calls: every opening fence tagged json goes, and a fence
\* that ends the text goes; a bare fence elsewhere stays
StripFences(text) ==
  LET opened == SelectSeq(text, LAMBDA piece : piece # JsonFence)
  IN IF opened # <<>> /\ opened[Len(opened)] = BareFence
       THEN SubSeq(opened, 1, Len(opened) - 1)
       ELSE opened

\* parseNamingSuggestion: the suggestion, or null
ParseNamingSuggestion(jsonString) ==
  LET cleaned == IF jsonString # <<>> /\ jsonString[1] \in {JsonFence, BareFence}
                   THEN StripFences(jsonString)
                   ELSE jsonString
  IN IF IsJson(cleaned) /\ NamingSuggestionSchema(cleaned[1])
       THEN cleaned[1]
       ELSE Null

IdentifierStart == {"a", "b", "A", "_", "$"}
IdentifierPart == IdentifierStart \cup {"1"}

\* /^[a-zA-Z_$][a-zA-Z0-9_$]*$/.test(name)
ValidIdentifier(name) ==
  /\ Len(name) >= 1
  /\ name[1] \in IdentifierStart
  /\ \A i \in 2..Len(name) : name[i] \in IdentifierPart

\* mutant of IsValidSuggestion: every suggestion of the schema is accepted
AcceptsAll(suggestion) == TRUE

\* isValidSuggestion
IsValidSuggestion(suggestion) ==
  /\ suggestion.oldName # suggestion.newName
  /\ ~(suggestion.confidence < 30)
  /\ ~(suggestion.rationale = <<>> \/ Len(suggestion.rationale) < 10)
  /\ ValidIdentifier(suggestion.newName)

\* ---- llm/client.ts
\* getCacheKey: the digest of file:oldName:declaration, a digest being
\* taken as one-to-one
GetCacheKey(c) == c.file \o <<":">> \o c.oldName \o <<":">> \o c.declaration

\* mutant of GetCachedResponse: every lookup misses
NeverCached(cache, key, t) == [value |-> Null, cache |-> cache]

\* mutant of GetCachedResponse: an expired entry is left in the cache
ExpiredKept(cache, key, t) ==
  IF key \notin DOMAIN cache \/ t - cache[key].timestamp > cache[key].ttl
    THEN [value |-> Null, cache |-> cache]
    ELSE [value |-> cache[key].suggestion, cache |-> cache]

\* getCachedResponse at time t: the value it returns and the cache it leaves
GetCachedResponse(cache, key, t) ==
  IF key \notin DOMAIN cache
    THEN [value |-> Null, cache |-> cache]
    ELSE IF t - cache[key].timestamp > cache[key].ttl
      THEN [value |-> Null, cache |-> [k \in DOMAIN cache \ {key} |-> cache[k]]]
      ELSE [value |-> cache[key].suggestion, cache |-> cache]

\* mutant of CacheResponse: nothing is stored
CachesNothing(cache, key, suggestion, t) == cache

\* cacheResponse at time t
CacheResponse(cache, key, suggestion, t) ==
  [k \in DOMAIN cache \cup {key} |->
     IF k = key
       THEN [suggestion |-> suggestion, timestamp |-> t, ttl |-> CACHE_TTL]
       ELSE cache[k]]

RECURSIVE Pow2(_)
\* Math.pow(2, n)
Pow2(n) == IF n = 0 THEN 1 ELSE 2 * Pow2(n - 1)

\* the variables of the other components
outsideClient == <<renameVars, driverVars, toolVars>>

\* askLLM returns
Answer(value) == answer' = value /\ askPc' = "returned"

\* getLLMConfig: it throws when BLACKBOX_API_KEY is not set
GetLLMConfig(env) ==
  IF env.apiKey
    THEN [raised |-> FALSE, model |-> "gpt-4o-mini", maxRetries |-> env.maxRetries]
    ELSE [raised |-> TRUE, error |-> EConfig]

\* askLLM(context), to its first await: the configuration, the cache lookup,
\* and the entry of the retry loop
AskLLM ==
  /\ askPc \in {"idle", "returned", "raised"}
  /\ asks < MaxAsks
  /\ asks' = asks + 1
  /\ \E c \in Contexts :
       LET config == GetLLMConfig(environment)
           cached == GetCachedResponse(responseCache, GetCacheKey(c), now)
       IN /\ context' = c
          /\ start' = [cache |-> responseCache, apiCalls |-> apiCalls, now |-> now,
                       fresh |-> fresh[c]]
          /\ IF config.raised
               THEN /\ askPc' = "raised"
                    /\ answer' = None
                    /\ UNCHANGED responseCache
               ELSE /\ responseCache' = cached.cache
                    /\ IF cached.value # Null
                         THEN Answer(cached.value)
                         ELSE IF 0 <= config.maxRetries
                           THEN askPc' = "request" /\ answer' = None
                           ELSE Answer(Null)
  /\ attempt' = 0
  /\ lastError' = None
  /\ requests' = <<>>
  /\ slept' = <<>>
  /\ logged' = <<>>
  /\ UNCHANGED <<environment, apiCalls, now, ticks, fresh, costVars, outsideClient>>

\* mutant of BackoffMs: the same wait before every attempt
ConstantBackoff(n) == 1000

\* const backoffMs = Math.pow(2, attempt) * 1000
BackoffMs(n) == Pow2(n) * 1000

\* mutant of Remaining: one attempt more than the budget
OneMore(n, maxRetries) == n <= maxRetries

\* if (attempt < config.maxRetries)
Remaining(n, maxRetries) == n < maxRetries

\* mutant of Catch: the error of the last attempt is thrown again
CatchRethrows(e) ==
  /\ lastError' = e
  /\ IF Remaining(attempt, environment.maxRetries)
       THEN /\ askPc' = "sleep"
            /\ UNCHANGED <<attempt, answer, logged>>
       ELSE /\ attempt' = attempt + 1
            /\ askPc' = "raised"
            /\ UNCHANGED <<answer, logged>>
  /\ UNCHANGED <<responseCache, apiCalls, fresh, costVars>>

\* the catch clause of the retry loop: the wait before the next attempt, or the
\* end of the loop, the error-level log entry and `return null`
Catch(e) ==
  /\ lastError' = e
  /\ IF Remaining(attempt, environment.maxRetries)
       THEN /\ askPc' = "sleep"
            /\ UNCHANGED <<attempt, answer, logged>>
       ELSE /\ attempt' = attempt + 1
            /\ logged' = Append(logged, e.message)
            /\ Answer(Null)
  /\ UNCHANGED <<responseCache, apiCalls, fresh, costVars>>

\* mutant of Reject: a rejected suggestion is retried like a failed request
RejectRetries(suggestion) == Catch(EInvalidJson)

\* if (!isValidSuggestion(suggestion)) return null
Reject(suggestion) ==
  /\ Answer(Null)
  /\ UNCHANGED <<responseCache, apiCalls, fresh, attempt, lastError, logged, costVars>>

\* response.usage: missing, or the token counts of the request
Usages == {None, [prompt_tokens |-> 2, completion_tokens |-> 1, total_tokens |-> 3]}

\* MODEL_PRICING, in hundredths of a dollar per million tokens
ModelPricing(model) ==
  CASE model = "gpt-4o" -> [input |-> 250, output |-> 1000]
    [] model = "gpt-4-turbo" -> [input |-> 1000, output |-> 3000]
    [] model = "gpt-3.5-turbo" -> [input |-> 50, output |-> 150]
    [] OTHER -> [input |-> 15, output |-> 60]

\* calculateCost, in hundred-millionths of a dollar
CalculateCost(model, inputTokens, outputTokens) ==
  inputTokens * ModelPricing(model).input + outputTokens * ModelPricing(model).output

\* the suggestion is counted with the usage the response states, cached and
\* returned
Accept(suggestion, usage) ==
  /\ IF usage # None
       THEN /\ totalTokens' = totalTokens + usage.total_tokens
            /\ estimatedCost' = estimatedCost
                 + CalculateCost(GetLLMConfig(environment).model, usage.prompt_tokens,
                                 usage.completion_tokens)
       ELSE UNCHANGED <<totalTokens, estimatedCost>>
  /\ apiCalls' = apiCalls + 1
  /\ responseCache' = CacheResponse(responseCache, GetCacheKey(context), suggestion, now)
  /\ fresh' = [fresh EXCEPT ![context] = [suggestion |-> suggestion, at |-> now]]
  /\ Answer(suggestion)
  /\ UNCHANGED <<attempt, lastError, logged, cacheHitRate, reported>>

\* what the try block makes of a response: the request was rejected, the
\* content is missing, it does not parse, it parses to a suggestion that
\* isValidSuggestion refuses, or it parses to one that is returned
OutcomeOf(response) ==
  IF response.rejected THEN "rejected"
  ELSE IF response.content = <<>> THEN "empty"
  ELSE IF ParseNamingSuggestion(response.content) = Null THEN "unparsed"
  ELSE IF ~IsValidSuggestion(ParseNamingSuggestion(response.content)) THEN "invalid"
  ELSE "suggestion"

\* mutant of Request: an empty response ends the call at once
RequestDropsEmpty ==
  /\ askPc = "request"
  /\ \E response \in Responses :
       /\ requests' = Append(requests, <<attempt, OutcomeOf(response)>>)
       /\ IF response.rejected
            THEN Catch(ERequest)
            ELSE IF response.content = <<>>
              THEN Reject(Null)
              ELSE LET suggestion == ParseNamingSuggestion(response.content)
                   IN IF suggestion = Null
                        THEN Catch(EInvalidJson)
                        ELSE IF ~IsValidSuggestion(suggestion)
                          THEN Reject(suggestion)
                          ELSE \E usage \in Usages : Accept(suggestion, usage)
  /\ UNCHANGED <<environment, now, context, asks, ticks, start, slept, outsideClient>>

\* one attempt: the request, and what the try block makes of the response
Request ==
  /\ askPc = "request"
  /\ \E response \in Responses :
       /\ requests' = Append(requests, <<attempt, OutcomeOf(response)>>)
       /\ IF response.rejected
            THEN Catch(ERequest)
            ELSE IF response.content = <<>>
              THEN Catch(EEmpty)
              ELSE LET suggestion == ParseNamingSuggestion(response.content)
                   IN IF suggestion = Null
                        THEN Catch(EInvalidJson)
                        ELSE IF ~IsValidSuggestion(suggestion)
                          THEN Reject(suggestion)
                          ELSE \E usage \in Usages : Accept(suggestion, usage)
  /\ UNCHANGED <<environment, now, context, asks, ticks, start, slept, outsideClient>>

\* await sleep(backoffMs), and the loop's attempt++
Sleep ==
  /\ askPc = "sleep"
  /\ slept' = Append(slept, <<attempt, BackoffMs(attempt)>>)
  /\ now' = now + BackoffMs(attempt)
  /\ attempt' = attempt + 1
  /\ askPc' = "request"
  /\ UNCHANGED <<environment, responseCache, apiCalls, context, lastError, answer,
                 asks, ticks, start, fresh, requests, logged, costVars,
                 outsideClient>>

\* clearCache, between two calls: the last call is no longer the latest thing
\* that happened to the client
ClearCache ==
  /\ askPc \in {"idle", "returned", "raised"}
  /\ asks < MaxAsks
  /\ responseCache # << >>
  /\ responseCache' = << >>
  /\ fresh' = [c \in Contexts |-> None]
  /\ askPc' = "idle"
  /\ UNCHANGED <<environment, apiCalls, now, context, attempt, lastError,
                 answer, asks, ticks, start, requests, slept, logged, costVars,
                 outsideClient>>

RECURSIVE Gcd(_, _)
Gcd(n, d) == IF d = 0 THEN n ELSE Gcd(d, n % d)

\* the quotient n / d of two naturals, in lowest terms
Ratio(n, d) == [num |-> n \div Gcd(n, d), den |-> d \div Gcd(n, d)]

\* history: resetCostStats came last
Zeroed == [zeroed |-> TRUE]

\* mutant of ResetCostStats: the token count and the cost are not reset
ResetForgetsTokens ==
  /\ askPc \in {"idle", "returned", "raised"}
  /\ asks < MaxAsks
  /\ apiCalls # 0
  /\ apiCalls' = 0
  /\ cacheHitRate' = Ratio(0, 1)
  /\ reported' = Zeroed
  /\ askPc' = "idle"
  /\ UNCHANGED <<environment, responseCache, now, context, attempt,
                 lastError, answer, asks, ticks, start, fresh, requests, slept,
                 logged, totalTokens, estimatedCost, outsideClient>>

\* resetCostStats, between two calls
ResetCostStats ==
  /\ askPc \in {"idle", "returned", "raised"}
  /\ asks < MaxAsks
  /\ apiCalls # 0
  /\ apiCalls' = 0
  /\ totalTokens' = 0
  /\ estimatedCost' = 0
  /\ cacheHitRate' = Ratio(0, 1)
  /\ reported' = Zeroed
  /\ askPc' = "idle"
  /\ UNCHANGED <<environment, responseCache, now, context, attempt,
                 lastError, answer, asks, ticks, start, fresh, requests, slept,
                 logged, outsideClient>>

\* getCostStats, between two calls: the hit rate is computed anew and stored,
\* and a copy of costStats is returned
GetCostStats ==
  LET size == Cardinality(DOMAIN responseCache)
      totalRequests == apiCalls + size
      rate == IF totalRequests > 0 THEN Ratio(size, totalRequests) ELSE Ratio(0, 1)
  IN /\ askPc \in {"idle", "returned", "raised"}
     /\ cacheHitRate' = rate
     /\ reported' = [totalTokens |-> totalTokens, estimatedCost |-> estimatedCost,
                     apiCalls |-> apiCalls, cacheHitRate |-> rate]
     /\ UNCHANGED <<environment, responseCache, apiCalls, now, askPc, context,
                    attempt, lastError, answer, asks, ticks, start, fresh,
                    requests, slept, logged, totalTokens, estimatedCost,
                    outsideClient>>

\* time passes between two calls
Tick ==
  /\ askPc \in {"idle", "returned", "raised"}
  /\ asks < MaxAsks
  /\ ticks < MaxTicks
  /\ ticks' = ticks + 1
  /\ \E d \in {1, CACHE_TTL} : now' = now + d
  /\ UNCHANGED <<environment, responseCache, apiCalls, askPc, context, attempt,
                 lastError, answer, asks, start, fresh, requests, slept, logged,
                 costVars, outsideClient>>

Environments == [apiKey : BOOLEAN, maxRetries : 0..MaxRetries]

\* a process that has its key, with the default of MAX_RETRIES
DefaultEnvironment == [apiKey |-> TRUE, maxRetries |-> 2]

\* the client before its first call, in a process with the environment env
ClientStarts(env) ==
  /\ environment = env
  /\ responseCache = << >>
  /\ apiCalls = 0
  /\ now = 0
  /\ askPc = "idle"
  /\ context = None
  /\ attempt = 0
  /\ lastError = None
  /\ answer = None
  /\ asks = 0
  /\ ticks = 0
  /\ start = None
  /\ fresh = [c \in Contexts |-> None]
  /\ requests = <<>>
  /\ slept = <<>>
  /\ logged = <<>>
  /\ totalTokens = 0
  /\ estimatedCost = 0
  /\ cacheHitRate = Ratio(0, 1)
  /\ reported = None

\* ------------------------------------------------- the pipeline drivers
\* github/review.ts (runReview), github/autofix.ts (runAutofix) and the parts
\* of github/api-client.ts and rename-orchestrator.ts they decide with

\* bound: the most contexts buildContextsFromPR finds
MaxContexts == 2

\* const AUTOFIX_LABEL = 'auto-naming-fix'
AUTOFIX_LABEL == "auto-naming-fix"

\* pr.head.repo of the answer of octokit.pulls.get: null when the repository
\* the pull request came from is gone; `fork` is the repository's own flag,
\* `same` tells whether it is the repository the pull request is made to
NoRepo == [gone |-> TRUE]
HeadRepos ==
  {NoRepo, [fork |-> TRUE, same |-> FALSE], [fork |-> FALSE, same |-> TRUE],
   [fork |-> TRUE, same |-> TRUE]}

LabelLists == {<<>>, <<"bug">>, <<"bug", AUTOFIX_LABEL>>}

\* the answers of octokit.pulls.get
PullRequests == [headRepo : HeadRepos, labels : LabelLists]

\* getPullRequest: the PullRequest made of the answer
GetPullRequest(data) ==
  [isFork |-> IF data.headRepo = NoRepo THEN FALSE ELSE data.headRepo.fork,
   labels |-> data.labels]

\* isForkPR
IsForkPR(p) == p.isFork

\* hasLabel
HasLabel(p, label) == \E i \in 1..Len(p.labels) : p.labels[i] = label

\* the lists of contexts that buildContextsFromPR may return
ContextLists ==
  SeqsUpTo({ContextOf(<<"f", "1">>, 0), ContextOf(<<"f", "2">>, 0)}, MaxContexts)

\* what askLLM may return to a driver: null, or a payload that parses and that
\* isValidSuggestion accepts
DriverPayloads ==
  {[b EXCEPT !.confidence = c, !.safety = s] :
     b \in {p \in BasePayloads : p.newName = <<"b">>},
     c \in {0, 29, 30, 84, 85}, s \in Safeties}

AskResults ==
  {Null} \cup {p \in DriverPayloads : OutcomeOf(Answers(p)) = "suggestion"}

\* mutant of ShouldAutoRename: the API surface is not looked at
IgnoresApiSurface(suggestion) ==
  suggestion.confidence >= 85 /\ suggestion.safety.shouldAutofix

\* mutant of ShouldAutoRename: every suggestion passes
GateOpen(suggestion) == TRUE

\* shouldAutoRename
ShouldAutoRename(suggestion) ==
  IF suggestion.confidence < 85 THEN FALSE
  ELSE IF ~suggestion.safety.shouldAutofix THEN FALSE
  ELSE IF suggestion.safety.isApiSurface THEN FALSE
  ELSE TRUE

\* if (suggestion && suggestion.confidence >= 0.3)
Collects(suggestion) == suggestion # Null /\ suggestion.confidence >= 30

\* the variables of the other components
outsideDriver == <<renameVars, clientVars, toolVars>>

\* history of a step: the calls a driver made, each with what it was given
Does(made) == steps' = steps \o made

\* an exception leaves the driver: it is logged and thrown again
Fails ==
  /\ runPc' = "failed"
  /\ UNCHANGED <<pr, contexts, cursor, allSuggestions, autofixSuggestions,
                 renameResults, modifiedFiles>>

\* runReview() or runAutofix(), to the first await: the GitHub context is read
\* from the environment, and the run ends there when it is missing
Run ==
  /\ runPc = "idle"
  /\ \E m \in {"review", "autofix"}, data \in PullRequests, given \in BOOLEAN :
       /\ mode' = m
       /\ pull' = data
       /\ runPc' = IF given THEN "fetch" ELSE "failed"
  /\ UNCHANGED <<pr, contexts, cursor, allSuggestions, autofixSuggestions,
                 renameResults, modifiedFiles, steps, outsideDriver>>

\* await getPullRequest, then in runAutofix the fork check and the label check
FetchPullRequest ==
  /\ runPc = "fetch"
  /\ Does(<<<<"getPullRequest", None>>>>)
  /\ \E fetched \in BOOLEAN :
       IF ~fetched
         THEN Fails
         ELSE /\ pr' = GetPullRequest(pull)
              /\ runPc' = IF mode = "autofix" /\ IsForkPR(GetPullRequest(pull))
                            THEN "skip"
                          ELSE IF mode = "autofix"
                                  /\ ~HasLabel(GetPullRequest(pull), AUTOFIX_LABEL)
                            THEN "done"
                          ELSE "build"
              /\ UNCHANGED <<contexts, cursor, allSuggestions, autofixSuggestions,
                             renameResults, modifiedFiles>>
  /\ UNCHANGED <<mode, pull, outsideDriver>>

\* the fork pull request: the comment that autofix was skipped, and return
SkipFork ==
  /\ runPc = "skip"
  /\ Does(<<<<"postReviewComment", [kind |-> "skipped"]>>>>)
  /\ \E posted \in BOOLEAN : runPc' = IF posted THEN "done" ELSE "failed"
  /\ UNCHANGED <<mode, pull, pr, contexts, cursor, allSuggestions,
                 autofixSuggestions, renameResults, modifiedFiles, outsideDriver>>

\* await buildContextsFromPR, and the return when there is no symbol
BuildContexts ==
  /\ runPc = "build"
  /\ Does(<<<<"buildContextsFromPR", None>>>>)
  /\ \E built \in BOOLEAN, found \in ContextLists :
       IF ~built
         THEN Fails
         ELSE /\ contexts' = found
              /\ runPc' = IF found = <<>> THEN "done" ELSE "existing"
              /\ UNCHANGED <<pr, cursor, allSuggestions, autofixSuggestions,
                             renameResults, modifiedFiles>>
  /\ UNCHANGED <<mode, pull, outsideDriver>>

\* await getExistingComments (it catches its own errors)
GetExistingComments ==
  /\ runPc = "existing"
  /\ Does(<<<<"getExistingComments", None>>>>)
  /\ cursor' = 1
  /\ runPc' = "ask"
  /\ UNCHANGED <<mode, pull, pr, contexts, allSuggestions, autofixSuggestions,
                 renameResults, modifiedFiles, outsideDriver>>

\* one turn of the loop over the contexts: await askLLM(context), the
\* collection of the suggestion and, in runAutofix, the gate
AskNext ==
  /\ runPc = "ask"
  /\ IF ~environment.apiKey
       THEN Does(<<<<"askLLM", contexts[cursor]>>>>) /\ Fails
       ELSE \E suggestion \in AskResults :
         LET entry == [suggestion |-> suggestion, context |-> contexts[cursor]]
             gated == Collects(suggestion) /\ mode = "autofix"
             all == IF Collects(suggestion)
                      THEN Append(allSuggestions, entry)
                      ELSE allSuggestions
             auto == IF gated /\ ShouldAutoRename(suggestion)
                       THEN Append(autofixSuggestions, entry)
                       ELSE autofixSuggestions
             gate == IF gated THEN <<<<"shouldAutoRename", entry>>>> ELSE <<>>
         IN /\ Does(<<<<"askLLM", contexts[cursor]>>>> \o gate)
            /\ allSuggestions' = all
            /\ autofixSuggestions' = auto
            /\ IF cursor < Len(contexts)
                 THEN cursor' = cursor + 1 /\ runPc' = "ask"
                 ELSE /\ cursor' = 1
                      /\ runPc' = IF auto # <<>> THEN "rename" ELSE "comment"
            /\ UNCHANGED <<pr, contexts, renameResults, modifiedFiles>>
  /\ UNCHANGED <<mode, pull, outsideDriver>>

\* one turn of the loop over autofixSuggestions: await performSafeRename, the
\* push of its result and, after a success, the read of the modified file
RenameNext ==
  /\ runPc = "rename"
  /\ Does(<<<<"performSafeRename", autofixSuggestions[cursor]>>>>)
  /\ \E success \in BOOLEAN, read \in BOOLEAN :
       LET entry == autofixSuggestions[cursor]
           made == IF success
                     THEN Succeeded(entry.context.file, entry.suggestion.oldName,
                                    entry.suggestion.newName, 1)
                     ELSE Failed(entry.context.file, entry.suggestion.oldName,
                                 entry.suggestion.newName, ErrVerification)
           modified == IF success
                         THEN modifiedFiles \cup {entry.context.file}
                         ELSE modifiedFiles
       IN /\ renameResults' = Append(renameResults, made)
          /\ IF success /\ ~read
               THEN /\ runPc' = "failed"
                    /\ UNCHANGED <<cursor, modifiedFiles>>
               ELSE /\ modifiedFiles' = modified
                    /\ IF cursor < Len(autofixSuggestions)
                         THEN cursor' = cursor + 1 /\ runPc' = "rename"
                         ELSE /\ cursor' = 1
                              /\ runPc' = IF modified # {} THEN "commit" ELSE "comment"
  /\ UNCHANGED <<mode, pull, pr, contexts, allSuggestions, autofixSuggestions,
                 outsideDriver>>

\* if (modifiedFiles.size > 0) await commitChanges
CommitChanges ==
  /\ runPc = "commit"
  /\ Does(<<<<"commitChanges", [files |-> modifiedFiles]>>>>)
  /\ \E committed \in BOOLEAN : runPc' = IF committed THEN "comment" ELSE "failed"
  /\ UNCHANGED <<mode, pull, pr, contexts, cursor, allSuggestions,
                 autofixSuggestions, renameResults, modifiedFiles, outsideDriver>>

\* the comments: one made for every collected suggestion (and posted unless
\* it is a duplicate or the post fails, which is caught), then the summary of
\* runAutofix; runReview without any suggestion posts that there is none
PostComments ==
  /\ runPc = "comment"
  /\ \E posted \in [1..Len(allSuggestions) -> BOOLEAN], last \in BOOLEAN :
       /\ Does([i \in 1..Len(allSuggestions) |->
                  <<"formatSuggestionComment",
                    [entry |-> allSuggestions[i], posted |-> posted[i]]>>]
               \o (IF mode = "autofix"
                     THEN <<<<"postReviewComment", [kind |-> "summary"]>>>>
                   ELSE IF allSuggestions = <<>>
                     THEN <<<<"postReviewComment", [kind |-> "none"]>>>>
                   ELSE <<>>))
       /\ runPc' = IF last \/ (mode = "review" /\ allSuggestions # <<>>)
                     THEN "done"
                     ELSE "failed"
  /\ UNCHANGED <<mode, pull, pr, contexts, cursor, allSuggestions,
                 autofixSuggestions, renameResults, modifiedFiles, outsideDriver>>

\* no driver runs and none begins
DriverIdle ==
  /\ mode = "none"
  /\ runPc = "idle"
  /\ pull = None
  /\ pr = None
  /\ contexts = <<>>
  /\ cursor = 1
  /\ allSuggestions = <<>>
  /\ autofixSuggestions = <<>>
  /\ renameResults = <<>>
  /\ modifiedFiles = {}
  /\ steps = <<>>

\* the variables of the other components
outsideBackend ==
  <<renameVars, clientVars, driverVars, diffVars, autofixVars, overlapVars,
    symbolVars>>

\* ------------------------------------------- a backend's rename, by itself
\* python-renamer.ts (renamePythonSymbol) and go-renamer.ts (renameGoSymbol),
\* called on a project of two files

\* the projects: the file f1 and the other file, each with a text
Projects ==
  {[p \in {<<"f1">>, OtherFile} |-> IF p = OtherFile THEN other ELSE text] :
     text \in Contents, other \in Contents}

\* the calls: a request for one of the two backends, and the project it is
\* made on
Jobs ==
  [request : {r \in Requests : r.language \in {"python", "go"}}, files : Projects]

\* the command that tells whether the tool is installed
ProbeCommand(language) ==
  IF language = "python" THEN <<"python3", "-c", "import rope">>
  ELSE <<"gopls", "version">>

\* the command that renames with the tool
RenameCommand(language) ==
  IF language = "python" THEN <<"python3", "-c", "renameScript">>
  ELSE <<"gopls", "rename", "-w">>

\* does the backend, with its tool installed, get as far as the rename
\* command: renameGoSymbol first reads the file and finds the line and column
ReachesTool(fs, r, env) ==
  r.language = "go" =>
    /\ env # "readFails"
    /\ Exists(fs, r.filePath)
    /\ r.lineNumber <= Len(fs[r.filePath])
    /\ fs[r.filePath][r.lineNumber] = r.suggestion.oldName

\* renamePythonSymbol / renameGoSymbol is called, once
BackendCall ==
  /\ job = None
  /\ job' \in Jobs
  /\ toolRan' = None
  /\ commands' = <<>>
  /\ UNCHANGED outsideBackend

\* the call runs: the probe, then the tool or the fallback
BackendRename ==
  /\ job # None
  /\ toolRan = None
  /\ \E installed \in BOOLEAN, env \in ToolEnv :
       /\ ~installed => env \in FallbackEnv
       /\ toolRan' = [installed |-> installed,
                      ran |-> DispatchRename(job.files, job.request, installed, env)]
       /\ commands' =
            <<ProbeCommand(job.request.language)>>
              \o (IF installed /\ ReachesTool(job.files, job.request, env)
                    THEN <<RenameCommand(job.request.language)>>
                    ELSE <<>>)
  /\ UNCHANGED <<job, outsideBackend>>

\* no backend is called by itself
BackendIdle ==
  /\ job = None
  /\ toolRan = None
  /\ commands = <<>>

\* the variables of the other components
outsideDiff ==
  <<renameVars, clientVars, driverVars, backendVars, autofixVars, overlapVars,
    symbolVars>>

\* ------------------------------------------------------- the diff parser
\* context/diff-parser.ts.  A string is a sequence of characters; a diff text
\* is the sequence of its lines (what diffText.split('\n') gives).

\* bound: the most lines of a diff text
MaxDiffLines == 4

\* String.prototype.startsWith
StartsWith(line, prefix) ==
  Len(line) >= Len(prefix) /\ SubSeq(line, 1, Len(prefix)) = prefix

\* String.prototype.toLowerCase, on the capitals that occur
LowerOf(c) ==
  CASE c = "G" -> "g" [] c = "I" -> "i" [] c = "O" -> "o" [] c = "P" -> "p"
    [] c = "S" -> "s" [] c = "T" -> "t" [] c = "Y" -> "y" [] OTHER -> c

ToLowerCase(text) == [i \in 1..Len(text) |-> LowerOf(text[i])]

\* filePath.split('.').pop(): the text after the last '.', the whole path
\* when it has none
LastPiece(filePath) ==
  LET dots == {i \in 1..Len(filePath) : filePath[i] = "."}
  IN IF dots = {} THEN filePath
     ELSE SubSeq(filePath, (CHOOSE i \in dots : \A j \in dots : j <= i) + 1,
                 Len(filePath))

\* the null that detectLanguage returns
NoLanguage == "null"

\* detectLanguage
DetectLanguage(filePath) ==
  LET ext == ToLowerCase(LastPiece(filePath))
  IN CASE ext \in {<<"t", "s">>, <<"t", "s", "x">>} -> "typescript"
       [] ext \in {<<"j", "s">>, <<"j", "s", "x">>} -> "javascript"
       [] ext = <<"p", "y">> -> "python"
       [] ext = <<"g", "o">> -> "go"
       [] OTHER -> NoLanguage

Digits == {"0", "1", "2", "3", "4", "5", "6", "7", "8", "9"}

DigitValue(c) == CHOOSE n \in 0..9 : <<"0", "1", "2", "3", "4", "5", "6", "7", "8", "9">>[n + 1] = c

RECURSIVE ParseDigits(_, _, _)
\* parseInt(match[1], 10): the number that the digits from position i on write
ParseDigits(line, i, n) ==
  IF i <= Len(line) /\ line[i] \in Digits
    THEN ParseDigits(line, i + 1, 10 * n + DigitValue(line[i]))
    ELSE n

\* line.match(/\+(\d+)/): where the first '+' before a digit is, 0 for no match
PlusMatch(line) ==
  LET at == {i \in 1..(Len(line) - 1) : line[i] = "+" /\ line[i + 1] \in Digits}
  IN IF at = {} THEN 0 ELSE CHOOSE i \in at : \A j \in at : i <= j

\* line.startsWith('+') && !line.startsWith('+++')
IsAddition(line) == StartsWith(line, <<"+">>) /\ ~StartsWith(line, <<"+", "+", "+">>)

\* line.startsWith('-') && !line.startsWith('---')
IsDeletion(line) == StartsWith(line, <<"-">>) /\ ~StartsWith(line, <<"-", "-", "-">>)

\* the loop over the lines: `at` is what the loop has after the lines before
\* line i
RECURSIVE ScanLines(_, _, _)
ScanLines(lines, i, at) ==
  IF i > Len(lines) THEN at
  ELSE LET line == lines[i]
       IN IF StartsWith(line, <<"@", "@">>)
            THEN IF PlusMatch(line) # 0
                   THEN ScanLines(lines, i + 1,
                                  [at EXCEPT !.currentLine =
                                               ParseDigits(line, PlusMatch(line) + 1, 0),
                                             !.inHunk = TRUE])
                   ELSE ScanLines(lines, i + 1, at)
          ELSE IF ~at.inHunk THEN ScanLines(lines, i + 1, at)
          ELSE IF IsAddition(line)
            THEN ScanLines(lines, i + 1,
                           [at EXCEPT !.additions =
                                        Append(@, [line |-> at.currentLine,
                                                   content |-> Tail(line)]),
                                      !.currentLine = @ + 1])
          ELSE IF IsDeletion(line)
            THEN ScanLines(lines, i + 1,
                           [at EXCEPT !.deletions =
                                        Append(@, [line |-> at.currentLine,
                                                   content |-> Tail(line)])])
          ELSE IF StartsWith(line, <<" ">>)
            THEN ScanLines(lines, i + 1, [at EXCEPT !.currentLine = @ + 1])
          ELSE ScanLines(lines, i + 1, at)

\* mutant of Near: every deletion counts, wherever it is
NearAnywhere(deletion, addition) == TRUE

\* Math.abs(del.line - addition.line) <= 2
Near(deletion, addition) ==
  deletion.line - addition.line <= 2 /\ addition.line - deletion.line <= 2

\* parseDiff
ParseDiff(diffText, filePath) ==
  IF DetectLanguage(filePath) = NoLanguage THEN Null
  ELSE LET at == ScanLines(diffText, 1,
                           [currentLine |-> 0, inHunk |-> FALSE,
                            additions |-> <<>>, deletions |-> <<>>])
           Modified(addition) ==
             \E k \in 1..Len(at.deletions) : Near(at.deletions[k], addition)
       IN [file |-> filePath, language |-> DetectLanguage(filePath),
           additions |-> at.additions, deletions |-> at.deletions,
           modifications |-> SelectSeq(at.additions, Modified)]

\* the lines of the diffs: hunk headers that start the new file at line 1 and
\* at line 13, a header without numbers, additions, deletions, a context
\* line, an empty line and the mark of a missing final newline
DiffLines ==
  {<<"@", "@", " ", "-", "1", " ", "+", "1", " ", "@", "@">>,
   <<"@", "@", " ", "-", "9", ",", "2", " ", "+", "1", "3", ",", "2", " ", "@", "@">>,
   <<"@", "@">>,
   <<"+", "a">>, <<"+", "+", "+", "a">>,
   <<"-", "a">>, <<"-", "-", "-", "a">>,
   <<" ", "a">>, <<>>, <<"\\">>}

DiffTexts == SeqsUpTo(DiffLines, MaxDiffLines) \ {<<>>}

\* the paths: each extension of the switch, in both cases, other extensions,
\* two dots, and paths without a dot
FilePaths ==
  {<<"a", ".", "t", "s">>, <<"b", "/", "a", ".", "t", "s">>,
   <<"a", ".", "t", "s", "x">>, <<"a", ".", "j", "s">>, <<"a", ".", "j", "s", "x">>,
   <<"a", ".", "p", "y">>, <<"a", ".", "g", "o">>, <<"a", ".", "m", "d">>,
   <<"a", ".", "T", "S">>, <<"a", ".", "P", "y">>,
   <<"a", ".", "d", ".", "t", "s">>, <<"a", ".", "t", "s", ".", "m", "d">>,
   <<"a">>, <<"g", "o">>, <<"p", "y">>, <<"b", "/", "g", "o">>, <<"a", ".">>}

\* no call of the diff parser was made yet
NotCalled == parseCall = None /\ extractCall = None

\* parseDiff(diffText, filePath) is called and returns
ParseDiffCall ==
  /\ NotCalled
  /\ \E diffText \in DiffTexts, filePath \in FilePaths :
       /\ parseCall' = [diffText |-> diffText, filePath |-> filePath]
       /\ prDiff' = ParseDiff(diffText, filePath)
  /\ extractCall' = None
  /\ identifiers' = None
  /\ UNCHANGED outsideDiff

\* bound: the most tokens of a code
MaxTokens == 3

\* A code is the sequence of its tokens, written one after the other with a
\* space between two words that are neighbours.
WordChars ==
  {"a", "b", "c", "d", "e", "f", "g", "h", "i", "k", "l", "m", "n", "o", "p", "r",
   "s", "t", "u", "v", "w", "x", "y", "I"}

\* [a-zA-Z_][a-zA-Z0-9_]*, and the same with '$', on these characters
IsWord(token) == token # <<>> /\ \A i \in 1..Len(token) : token[i] \in WordChars

\* what \s* skips at the start of a token
RECURSIVE TrimStart(_)
TrimStart(token) ==
  IF token # <<>> /\ Head(token) = " " THEN TrimStart(Tail(token)) ELSE token

\* \s+ before and after \([^)]*\): a receiver with the space on both its sides
IsReceiver(token) ==
  /\ Len(token) >= 5
  /\ token[1] = " " /\ token[Len(token)] = " "
  /\ TrimStart(token)[1] = "("
  /\ \E i \in 2..(Len(token) - 1) :
       /\ token[i] = ")"
       /\ \A j \in (i + 1)..Len(token) : token[j] = " "
       /\ \A j \in 2..(i - 1) : token[j] # ")"

DeclarationWords ==
  {<<"c", "o", "n", "s", "t">>, <<"l", "e", "t">>, <<"v", "a", "r">>,
   <<"f", "u", "n", "c", "t", "i", "o", "n">>, <<"c", "l", "a", "s", "s">>,
   <<"i", "n", "t", "e", "r", "f", "a", "c", "e">>, <<"t", "y", "p", "e">>,
   <<"e", "n", "u", "m">>}

\* the patterns of each language, in the order of the source
Patterns(language) ==
  CASE language \in {"typescript", "javascript"} -> <<"declared", "assigned", "called">>
    [] language = "python" -> <<"def", "class", "bound">>
    [] language = "go" -> <<"func", "type", "var">>

\* a word after the word `keyword`
AfterWord(keywords, code, i) ==
  IF code[i] \in keywords /\ i + 1 <= Len(code) /\ IsWord(code[i + 1])
    THEN [name |-> i + 1, next |-> i + 2]
    ELSE None

\* one match of a pattern that begins at token i: where the captured name is
\* and where the match ends
MatchAt(pattern, code, i) ==
  CASE pattern = "declared" -> AfterWord(DeclarationWords, code, i)
    [] pattern = "assigned" ->
         IF /\ IsWord(code[i]) /\ i + 2 <= Len(code)
            /\ code[i + 1] \in {<<":">>, <<"=">>}
            /\ \/ StartsWith(TrimStart(code[i + 2]), <<"(">>)
               \/ StartsWith(code[i + 2], <<"f", "u", "n", "c", "t", "i", "o", "n">>)
               \/ StartsWith(code[i + 2], <<"a", "s", "y", "n", "c">>)
           THEN [name |-> i, next |-> i + 3]
           ELSE None
    [] pattern = "called" ->
         IF /\ code[i] = <<".">> /\ i + 2 <= Len(code)
            /\ IsWord(code[i + 1])
            /\ StartsWith(TrimStart(code[i + 2]), <<"(">>)
           THEN [name |-> i + 1, next |-> i + 3]
           ELSE None
    [] pattern = "def" -> AfterWord({<<"d", "e", "f">>}, code, i)
    [] pattern = "class" -> AfterWord({<<"c", "l", "a", "s", "s">>}, code, i)
    [] pattern = "bound" ->
         IF /\ IsWord(code[i]) /\ i + 1 <= Len(code)
            /\ StartsWith(TrimStart(code[i + 1]), <<"=">>)
           THEN [name |-> i, next |-> i + 2]
           ELSE None
    [] pattern = "func" ->
         IF code[i] # <<"f", "u", "n", "c">> THEN None
         ELSE IF i + 1 <= Len(code) /\ IsWord(code[i + 1])
           THEN [name |-> i + 1, next |-> i + 2]
         ELSE IF i + 2 <= Len(code) /\ IsReceiver(code[i + 1]) /\ IsWord(code[i + 2])
           THEN [name |-> i + 2, next |-> i + 3]
         ELSE None
    [] pattern = "type" -> AfterWord({<<"t", "y", "p", "e">>}, code, i)
    [] pattern = "var" -> AfterWord({<<"v", "a", "r">>}, code, i)

\* while ((match = pattern.exec(code)) !== null): the names that the matches
\* of one pattern capture from token i on, left to right without overlap
RECURSIVE Exec(_, _, _)
Exec(pattern, code, i) ==
  IF i > Len(code) THEN <<>>
  ELSE LET match == MatchAt(pattern, code, i)
       IN IF match = None THEN Exec(pattern, code, i + 1)
          ELSE <<code[match.name]>> \o Exec(pattern, code, match.next)

\* the names that the patterns of a language capture, in the order they do
Captured(code, language) ==
  LET patterns == Patterns(language)
  IN Exec(patterns[1], code, 1) \o Exec(patterns[2], code, 1)
       \o Exec(patterns[3], code, 1)

\* the denylist of isCommonKeyword
Keywords ==
  {<<"i", "f">>, <<"e", "l", "s", "e">>, <<"f", "o", "r">>,
   <<"w", "h", "i", "l", "e">>, <<"d", "o">>, <<"s", "w", "i", "t", "c", "h">>,
   <<"c", "a", "s", "e">>, <<"b", "r", "e", "a", "k">>,
   <<"c", "o", "n", "t", "i", "n", "u", "e">>, <<"r", "e", "t", "u", "r", "n">>,
   <<"t", "r", "y">>, <<"c", "a", "t", "c", "h">>,
   <<"f", "i", "n", "a", "l", "l", "y">>, <<"t", "h", "r", "o", "w">>,
   <<"n", "e", "w">>, <<"t", "h", "i", "s">>, <<"s", "u", "p", "e", "r">>,
   <<"t", "r", "u", "e">>, <<"f", "a", "l", "s", "e">>, <<"n", "u", "l", "l">>,
   <<"u", "n", "d", "e", "f", "i", "n", "e", "d">>, <<"v", "o", "i", "d">>,
   <<"t", "y", "p", "e", "o", "f">>,
   <<"i", "n", "s", "t", "a", "n", "c", "e", "o", "f">>, <<"i", "n">>, <<"o", "f">>,
   <<"a", "s">>, <<"i", "s">>, <<"f", "r", "o", "m">>,
   <<"i", "m", "p", "o", "r", "t">>, <<"e", "x", "p", "o", "r", "t">>,
   <<"d", "e", "f", "a", "u", "l", "t">>, <<"a", "s", "y", "n", "c">>,
   <<"a", "w", "a", "i", "t">>, <<"y", "i", "e", "l", "d">>, <<"g", "e", "t">>,
   <<"s", "e", "t">>, <<"s", "t", "a", "t", "i", "c">>,
   <<"p", "u", "b", "l", "i", "c">>, <<"p", "r", "i", "v", "a", "t", "e">>,
   <<"p", "r", "o", "t", "e", "c", "t", "e", "d">>,
   <<"r", "e", "a", "d", "o", "n", "l", "y">>,
   <<"a", "b", "s", "t", "r", "a", "c", "t">>, <<"e", "x", "t", "e", "n", "d", "s">>,
   <<"i", "m", "p", "l", "e", "m", "e", "n", "t", "s">>}

\* isCommonKeyword
IsCommonKeyword(name) == ToLowerCase(name) \in Keywords

\* mutant of Keeps: a name of one character is kept
KeepsShort(name) == ~IsCommonKeyword(name)

\* name.length > 1 && !isCommonKeyword(name)
Keeps(name) == Len(name) > 1 /\ ~IsCommonKeyword(name)

\* identifiers.add(name) for each name in turn: a Set keeps the first of equals
RECURSIVE AddAll(_)
AddAll(names) ==
  IF names = <<>> THEN <<>>
  ELSE LET before == AddAll(SubSeq(names, 1, Len(names) - 1))
           name == names[Len(names)]
       IN IF \E k \in 1..Len(before) : before[k] = name THEN before
          ELSE Append(before, name)

\* extractIdentifiers
ExtractIdentifiers(code, language) ==
  AddAll(SelectSeq(Captured(code, language), Keeps))

SupportedLanguages == {"typescript", "javascript", "python", "go"}

\* the tokens of the codes: words that declare, names of one and of two
\* letters, a keyword in both cases, punctuation and a receiver
Tokens ==
  {<<"c", "o", "n", "s", "t">>, <<"d", "e", "f">>, <<"f", "u", "n", "c">>,
   <<"x">>, <<"a", "b">>, <<"i", "f">>, <<"I", "f">>,
   <<"=">>, <<".">>, <<"(">>, <<" ", "(", "x", ")", " ">>}

Codes == SeqsUpTo(Tokens, MaxTokens)

\* extractIdentifiers(code, language) is called and returns
ExtractCall ==
  /\ NotCalled
  /\ \E code \in Codes, language \in SupportedLanguages :
       /\ extractCall' = [code |-> code, language |-> language]
       /\ identifiers' = ExtractIdentifiers(code, language)
  /\ parseCall' = None
  /\ prDiff' = None
  /\ UNCHANGED outsideDiff

\* the diff parser is not called by itself
DiffIdle ==
  /\ parseCall = None
  /\ prDiff = None
  /\ extractCall = None
  /\ identifiers = None

\* the variables of the other components
outsideAutofix ==
  <<clientVars, driverVars, backendVars, diffVars, overlapVars, symbolVars>>

\* no rename loop of runAutofix runs
AutofixIdle ==
  /\ modifiedContent = << >>
  /\ commits = <<>>

\* no askLLM call overlaps another
OverlapIdle == flights = <<>>

\* no extractor, renamer of the tree tier or builder runs
SymbolIdle ==
  /\ symbolCall = None
  /\ symbolInfo = None
  /\ tsRenamed = None
  /\ builder = None

\* for (const { suggestion, context } of autofixSuggestions), to the first
\* await: the loop over a list of n eligible suggestions begins
AutofixLoop ==
  /\ pc = "idle"
  /\ \E n \in 1..MaxCalls :
       /\ batchSize' = n
       /\ index' = 0
       /\ results' = <<>>
       /\ pc' = "fix"
  /\ UNCHANGED <<files, calls, callVars, autofixVars, outsideAutofix>>

\* the next eligible suggestion, and the call of performSafeRename with it
AutofixCall ==
  /\ pc = "fix"
  /\ index < batchSize
  /\ index' = index + 1
  /\ \E r \in Requests : r.language # "ruby" /\ req' = r
  /\ calls' = calls + 1
  /\ pc' = "backup"
  /\ pre' = files
  /\ trace' = <<>>
  /\ thrown' = <<>>
  /\ UNCHANGED <<files, batchSize, results, result, error, outcome, autofixVars,
                 outsideAutofix>>

\* mutant of AutofixPush: the file of a failed rename is kept too
AutofixKeepsFailed ==
  /\ pc = "returned"
  /\ results' = Append(results, outcome)
  /\ \E read \in BOOLEAN :
       IF read /\ Exists(files, req.filePath)
         THEN /\ modifiedContent' =
                   WriteFile(modifiedContent, req.filePath, files[req.filePath])
              /\ pc' = "fix"
         ELSE /\ pc' = "fixFailed"
              /\ UNCHANGED modifiedContent
  /\ req' = None
  /\ result' = None
  /\ error' = None
  /\ outcome' = None
  /\ pre' = None
  /\ trace' = <<>>
  /\ thrown' = <<>>
  /\ UNCHANGED <<files, calls, batchSize, index, commits, outsideAutofix>>

\* renameResults.push(result); after a success the file is read and its
\* content put in modifiedFiles (a read that throws ends runAutofix); after a
\* failure the loop goes on
AutofixPush ==
  /\ pc = "returned"
  /\ results' = Append(results, outcome)
  /\ IF outcome.success
       THEN \E read \in BOOLEAN :
              IF read /\ Exists(files, req.filePath)
                THEN /\ modifiedContent' =
                          WriteFile(modifiedContent, req.filePath, files[req.filePath])
                     /\ pc' = "fix"
                ELSE /\ pc' = "fixFailed"
                     /\ UNCHANGED modifiedContent
       ELSE /\ pc' = "fix"
            /\ UNCHANGED modifiedContent
  /\ req' = None
  /\ result' = None
  /\ error' = None
  /\ outcome' = None
  /\ pre' = None
  /\ trace' = <<>>
  /\ thrown' = <<>>
  /\ UNCHANGED <<files, calls, batchSize, index, commits, outsideAutofix>>

\* if (modifiedFiles.size > 0) await commitChanges(..., files, ...), with the
\* entries of modifiedFiles
AutofixCommit ==
  /\ pc = "fix"
  /\ index = batchSize
  /\ IF DOMAIN modifiedContent # {}
       THEN commits' = Append(commits, modifiedContent)
       ELSE UNCHANGED commits
  /\ pc' = "fixDone"
  /\ UNCHANGED <<files, batchVars, callVars, modifiedContent, outsideAutofix>>

ToolsIdle ==
  BackendIdle /\ DiffIdle /\ AutofixIdle /\ OverlapIdle /\ SymbolIdle

\* --------------------------------------------------------- specification
InitContents == {t \in Contents : Len(t) = MaxLen}

\* the text of a file that was at a sidecar path before any call
StaleText == <<"b">>

Init ==
  /\ \E t \in InitContents, stale \in {{}, Targets} :
       files = [p \in Targets \cup {OtherFile} \cup {BackupPath(f) : f \in stale} |->
                  IF p \in Targets \cup {OtherFile} THEN t ELSE StaleText]
  /\ calls = 0
  /\ batchSize = 0
  /\ index = 0
  /\ results = <<>>
  /\ pc = "idle"
  /\ req = None
  /\ result = None
  /\ error = None
  /\ outcome = None
  /\ pre = None
  /\ thrown = <<>>
  /\ trace = <<>>
  /\ ClientStarts(DefaultEnvironment)
  /\ DriverIdle
  /\ ToolsIdle

Next ==
  \/ BatchRename /\ UNCHANGED outsideRename
  \/ Call /\ UNCHANGED outsideRename
  \/ Backup /\ UNCHANGED outsideRename
  \/ Rename /\ UNCHANGED outsideRename
  \/ RestoreAfterRename /\ UNCHANGED outsideRename
  \/ UnlinkAfterRename /\ UNCHANGED outsideRename
  \/ Verify /\ UNCHANGED outsideRename
  \/ RestoreAfterVerify /\ UNCHANGED outsideRename
  \/ UnlinkAfterVerify /\ UNCHANGED outsideRename
  \/ UnlinkCommit /\ UNCHANGED outsideRename
  \/ EmergencyCopy /\ UNCHANGED outsideRename
  \/ EmergencyUnlink /\ UNCHANGED outsideRename
  \/ Push /\ UNCHANGED outsideRename
  \/ BatchReturn /\ UNCHANGED outsideRename

Spec == Init /\ [][Next]_vars


\* the awaited operations complete: a backend, a tool or a file operation that
\* was started answers (the orchestrator sets no timeout and awaits each one)
FairSpec == Spec /\ WF_vars(Next)

\* no rename is under way and none begins
RenameIdle ==
  /\ files = << >>
  /\ calls = 0
  /\ batchSize = 0
  /\ index = 0
  /\ results = <<>>
  /\ pc = "idle"
  /\ req = None
  /\ result = None
  /\ error = None
  /\ outcome = None
  /\ pre = None
  /\ thrown = <<>>
  /\ trace = <<>>

\* the suggestion client alone, in any environment
ClientInit ==
  /\ \E env \in Environments : ClientStarts(env)
  /\ RenameIdle
  /\ DriverIdle
  /\ ToolsIdle

ClientNext ==
  \/ AskLLM
  \/ Request
  \/ Sleep
  \/ ClearCache
  \/ ResetCostStats
  \/ Tick

ClientSpec == ClientInit /\ [][ClientNext]_vars

\* the client with the reports of its cost statistics
CostNext ==
  \/ AskLLM
  \/ Request
  \/ Sleep
  \/ ClearCache
  \/ ResetCostStats
  \/ GetCostStats
  \/ Tick

CostSpec == ClientInit /\ [][CostNext]_vars

\* a driver alone, in a process with or without its key: the client and the
\* orchestrator are what it calls
DriverInit ==
  /\ \E env \in {e \in Environments : e.maxRetries = DefaultEnvironment.maxRetries} :
       ClientStarts(env)
  /\ RenameIdle
  /\ DriverIdle
  /\ ToolsIdle

DriverNext ==
  \/ Run
  \/ FetchPullRequest
  \/ SkipFork
  \/ BuildContexts
  \/ GetExistingComments
  \/ AskNext
  \/ RenameNext
  \/ CommitChanges
  \/ PostComments

DriverSpec == DriverInit /\ [][DriverNext]_vars

\* a backend alone
BackendInit ==
  /\ BackendIdle
  /\ DiffIdle
  /\ AutofixIdle
  /\ OverlapIdle
  /\ SymbolIdle
  /\ RenameIdle
  /\ ClientStarts(DefaultEnvironment)
  /\ DriverIdle

BackendNext ==
  \/ BackendCall
  \/ BackendRename

BackendSpec == BackendInit /\ [][BackendNext]_vars

\* the diff parser alone
DiffInit ==
  /\ DiffIdle
  /\ BackendIdle
  /\ AutofixIdle
  /\ OverlapIdle
  /\ SymbolIdle
  /\ RenameIdle
  /\ ClientStarts(DefaultEnvironment)
  /\ DriverIdle

DiffNext ==
  \/ ParseDiffCall
  \/ ExtractCall

DiffSpec == DiffInit /\ [][DiffNext]_vars

\* the rename loop of runAutofix, with performSafeRename under it
AutofixInit == Init

AutofixNext ==
  \/ AutofixLoop
  \/ AutofixCall
  \/ Backup /\ UNCHANGED outsideRename
  \/ Rename /\ UNCHANGED outsideRename
  \/ RestoreAfterRename /\ UNCHANGED outsideRename
  \/ UnlinkAfterRename /\ UNCHANGED outsideRename
  \/ Verify /\ UNCHANGED outsideRename
  \/ RestoreAfterVerify /\ UNCHANGED outsideRename
  \/ UnlinkAfterVerify /\ UNCHANGED outsideRename
  \/ UnlinkCommit /\ UNCHANGED outsideRename
  \/ EmergencyCopy /\ UNCHANGED outsideRename
  \/ EmergencyUnlink /\ UNCHANGED outsideRename
  \/ AutofixPush
  \/ AutofixCommit

AutofixSpec == AutofixInit /\ [][AutofixNext]_vars

\* ------------------------------------------- askLLM calls that overlap
\* llm/client.ts: askLLM is async, so a caller may begin a call while another
\* is suspended at `await openai.chat.completions.create` or `await sleep`;
\* the calls share responseCache and costStats

\* what the service answers a call that overlaps another
FlightResponses ==
  {[rejected |-> TRUE], [rejected |-> FALSE, content |-> <<>>],
   [rejected |-> FALSE, content |-> <<Prose>>]}
  \cup {Answers([b EXCEPT !.confidence = 29]) : b \in BasePayloads}
  \cup {Answers(b) : b \in BasePayloads}

\* the variables of the other components, and the locals and histories of the
\* client that belong to calls made one after the other
outsideOverlap ==
  <<renameVars, driverVars, backendVars, diffVars, autofixVars, symbolVars,
    environment, askPc, context, attempt, lastError, answer, asks, ticks, start, fresh,
    requests, slept, logged, cacheHitRate, reported>>

Running(f) == f.pc \in {"request", "sleep"}

\* the call p goes on with the fields `changes` of its record changed
Goes(p, changes) ==
  flights' =
    [flights EXCEPT ![p] = [k \in DOMAIN @ |->
                              IF k \in DOMAIN changes THEN changes[k] ELSE @[k]]]

\* askLLM(context), to its first await, while earlier calls may be suspended
FlightAskLLM ==
  /\ Len(flights) < MaxAsks
  /\ \E c \in Contexts :
       LET config == GetLLMConfig(environment)
           cached == GetCachedResponse(responseCache, GetCacheKey(c), now)
           begun == [context |-> c, attempt |-> 0, lastError |-> None,
                     answer |-> None, pc |-> "raised", sent |-> 0, wrote |-> 0,
                     counted |-> 0, hit |-> FALSE,
                     during |-> {i \in 1..Len(flights) : Running(flights[i])}]
       IN IF config.raised
            THEN /\ flights' = Append(flights, begun)
                 /\ UNCHANGED responseCache
            ELSE /\ responseCache' = cached.cache
                 /\ flights' = Append(flights,
                      IF cached.value # Null
                        THEN [begun EXCEPT !.pc = "returned",
                                           !.answer = cached.value, !.hit = TRUE]
                      ELSE IF 0 <= config.maxRetries
                        THEN [begun EXCEPT !.pc = "request"]
                        ELSE [begun EXCEPT !.pc = "returned", !.answer = Null])
  /\ UNCHANGED <<apiCalls, now, totalTokens, estimatedCost, outsideOverlap>>

\* the catch clause of the retry loop, in the call p
FlightCatch(p, e) ==
  /\ IF Remaining(flights[p].attempt, environment.maxRetries)
       THEN Goes(p, [lastError |-> e, pc |-> "sleep",
                     sent |-> flights[p].sent + 1])
       ELSE Goes(p, [lastError |-> e, pc |-> "returned", answer |-> Null,
                     attempt |-> flights[p].attempt + 1,
                     sent |-> flights[p].sent + 1])
  /\ UNCHANGED <<responseCache, apiCalls, totalTokens, estimatedCost>>

\* if (!isValidSuggestion(suggestion)) return null, in the call p
FlightReject(p) ==
  /\ Goes(p, [pc |-> "returned", answer |-> Null, sent |-> flights[p].sent + 1])
  /\ UNCHANGED <<responseCache, apiCalls, totalTokens, estimatedCost>>

\* mutant of FlightAccept: a suggestion is cached only when the cache has
\* none for the key
FlightAcceptOnce(p, suggestion, usage) ==
  LET key == GetCacheKey(flights[p].context)
      stored == key \in DOMAIN responseCache
  IN /\ IF usage # None /\ ~stored
          THEN /\ totalTokens' = totalTokens + usage.total_tokens
               /\ estimatedCost' = estimatedCost
                    + CalculateCost(GetLLMConfig(environment).model,
                                    usage.prompt_tokens, usage.completion_tokens)
          ELSE UNCHANGED <<totalTokens, estimatedCost>>
     /\ apiCalls' = IF stored THEN apiCalls ELSE apiCalls + 1
     /\ responseCache' =
          IF stored THEN responseCache
          ELSE CacheResponse(responseCache, key, suggestion, now)
     /\ Goes(p, [pc |-> "returned", answer |-> suggestion,
                 sent |-> flights[p].sent + 1,
                 wrote |-> flights[p].wrote + (IF stored THEN 0 ELSE 1),
                 counted |-> flights[p].counted + (IF stored THEN 0 ELSE 1)])

\* the suggestion is counted, cached and returned, in the call p
FlightAccept(p, suggestion, usage) ==
  /\ IF usage # None
       THEN /\ totalTokens' = totalTokens + usage.total_tokens
            /\ estimatedCost' = estimatedCost
                 + CalculateCost(GetLLMConfig(environment).model,
                                 usage.prompt_tokens, usage.completion_tokens)
       ELSE UNCHANGED <<totalTokens, estimatedCost>>
  /\ apiCalls' = apiCalls + 1
  /\ responseCache' =
       CacheResponse(responseCache, GetCacheKey(flights[p].context), suggestion, now)
  /\ Goes(p, [pc |-> "returned", answer |-> suggestion,
              sent |-> flights[p].sent + 1, wrote |-> flights[p].wrote + 1,
              counted |-> flights[p].counted + 1])

\* one attempt of the call p: the request, and what the try block makes of
\* the response when the call is resumed
FlightRequest(p) ==
  /\ flights[p].pc = "request"
  /\ \E response \in FlightResponses :
       IF response.rejected
         THEN FlightCatch(p, ERequest)
         ELSE IF response.content = <<>>
           THEN FlightCatch(p, EEmpty)
           ELSE LET suggestion == ParseNamingSuggestion(response.content)
                IN IF suggestion = Null
                     THEN FlightCatch(p, EInvalidJson)
                     ELSE IF ~IsValidSuggestion(suggestion)
                       THEN FlightReject(p)
                       ELSE \E usage \in Usages : FlightAccept(p, suggestion, usage)
  /\ UNCHANGED <<now, outsideOverlap>>

\* await sleep(backoffMs) of the call p, and the loop's attempt++
FlightSleep(p) ==
  /\ flights[p].pc = "sleep"
  /\ now' = now + BackoffMs(flights[p].attempt)
  /\ Goes(p, [pc |-> "request", attempt |-> flights[p].attempt + 1])
  /\ UNCHANGED <<responseCache, apiCalls, totalTokens, estimatedCost,
                 outsideOverlap>>

\* calls of askLLM that may overlap
OverlapInit == ClientInit

OverlapNext ==
  \/ FlightAskLLM
  \/ \E p \in 1..Len(flights) : FlightRequest(p)
  \/ \E p \in 1..Len(flights) : FlightSleep(p)

OverlapSpec == OverlapInit /\ [][OverlapNext]_vars

\* ------------------------------------- the symbol extractor and the renamer
\* context/symbol-extractor.ts (extractSymbolInfo and the extractors it routes
\* to), rename/typescript-renamer.ts (renameTsSymbol) and the loop over the
\* identifiers of buildContextsFromPR (context/context-builder.ts)

\* the kinds of node that have a name, and one that has none
DeclarationKinds ==
  {"VariableDeclaration", "FunctionDeclaration", "ClassDeclaration",
   "InterfaceDeclaration", "TypeAliasDeclaration", "MethodDeclaration",
   "PropertyDeclaration"}

\* a source file of the tree tier, as forEachDescendant visits it: the nodes
\* that declare, each on a line of its own, and declaration lists
TsNodes ==
  [kind : DeclarationKinds, name : {<<"a", "b">>, <<"c", "d">>}]
    \cup {[kind |-> "VariableDeclarationList"]}

TsFiles == SeqsUpTo(TsNodes, MaxLen)

\* a source file of the line tier: the lines that split('\n') gives, each the
\* sequence of its tokens, written as a code is
LineTokens ==
  {<<"f", "u", "n", "c">>, <<"a", "b">>, <<"x", "a", "b">>, <<"=">>, <<"(">>}

LineFiles == SeqsUpTo(SeqsUpTo(LineTokens, MaxTokens), MaxLen) \ {<<>>}

\* the names asked for: an identifier, a name with a character that a regular
\* expression reads as any character, and one with an open parenthesis
SymbolNames == {<<"a", "b">>, <<"a", ".">>, <<"b", "(">>}

\* SyntaxKind, the numbers of the kinds: they are those of the TypeScript
\* compiler that the build installs, which numbers the kinds as the comments
\* of findSymbolDeclarations say, or otherwise
SyntaxKind(numbering, kind) ==
  IF numbering = "commented"
    THEN CASE kind = "VariableDeclaration" -> 254
           [] kind = "FunctionDeclaration" -> 255
           [] kind = "ClassDeclaration" -> 256
           [] kind = "InterfaceDeclaration" -> 257
           [] kind = "TypeAliasDeclaration" -> 258
           [] kind = "MethodDeclaration" -> 168
           [] kind = "PropertyDeclaration" -> 166
           [] OTHER -> 253
    ELSE CASE kind = "VariableDeclaration" -> 260
           [] kind = "FunctionDeclaration" -> 262
           [] kind = "ClassDeclaration" -> 263
           [] kind = "InterfaceDeclaration" -> 264
           [] kind = "TypeAliasDeclaration" -> 265
           [] kind = "MethodDeclaration" -> 174
           [] kind = "PropertyDeclaration" -> 172
           [] OTHER -> 261

Numberings == {"commented", "other"}

RECURSIVE Ascending(_)
\* the members of a set of numbers, in order
Ascending(S) ==
  IF S = {} THEN <<>>
  ELSE LET least == CHOOSE i \in S : \A j \in S : i <= j
       IN <<least>> \o Ascending(S \ {least})

\* node.getName && node.getName() === symbolName
Named(node, symbolName) == "name" \in DOMAIN node /\ node.name = symbolName

\* findDeclarations of symbol-extractor.ts: where the nodes it collects are
FindDeclarations(sourceFile, symbolName) ==
  Ascending({i \in 1..Len(sourceFile) :
               /\ sourceFile[i].kind \in DeclarationKinds
               /\ Named(sourceFile[i], symbolName)})

\* findSymbolDeclarations of typescript-renamer.ts, on the nodes of a source
\* file: where the nodes it collects are
FindSymbolNodes(sourceFile, symbolName, numbering) ==
  Ascending({i \in 1..Len(sourceFile) :
               /\ SyntaxKind(numbering, sourceFile[i].kind) \in {254, 255, 256, 168, 166}
               /\ Named(sourceFile[i], symbolName)})

\* what an extractor gives: it returns a value, or an exception leaves it
Gives(value) == [raised |-> FALSE, value |-> value]
Raises == [raised |-> TRUE]

\* extractTsSymbolInfo: `throws` tells whether the library throws inside the
\* try block. Of SymbolInfo the name, the declaration and its line are kept.
ExtractTsSymbolInfo(symbolName, fileContent, throws) ==
  LET declarations == FindDeclarations(fileContent, symbolName)
  IN IF throws \/ declarations = <<>>
       THEN Gives(Null)
       ELSE Gives([name |-> symbolName,
                   declaration |-> fileContent[declarations[1]],
                   lineNumber |-> declarations[1]])

RECURSIVE Depth(_, _)
\* the parentheses of a pattern: how many are open at its end, or -1 when one
\* is closed that was not opened
Depth(pattern, open) ==
  IF open < 0 \/ pattern = <<>> THEN open
  ELSE Depth(Tail(pattern),
             CASE Head(pattern) = "(" -> open + 1
               [] Head(pattern) = ")" -> open - 1
               [] OTHER -> open)

\* new RegExp of a pattern made with the name does not throw
Compiles(symbolName) == Depth(symbolName, 0) = 0

\* the name, as a regular expression, matches the whole of the text
MatchesAll(symbolName, text) ==
  /\ Len(text) = Len(symbolName)
  /\ \A i \in 1..Len(text) : symbolName[i] \in {".", text[i]}

\* the text ends with a match of the name, or of the word
EndsWith(text, symbolName) ==
  /\ Len(text) >= Len(symbolName)
  /\ MatchesAll(symbolName, SubSeq(text, Len(text) - Len(symbolName) + 1, Len(text)))

\* keyword\s+name, and where the match ends: the pattern has no \b before it
KeywordThenName(line, keyword, symbolName, skip) ==
  {i + 2 + skip : i \in {k \in 1..(Len(line) - 1 - skip) :
     /\ EndsWith(line[k], keyword)
     /\ skip = 1 => IsReceiver(line[k + 1])
     /\ MatchesAll(symbolName, line[k + 1 + skip])}}

\* the three patterns of extractPythonSymbolInfo
PythonMatch(line, symbolName) ==
  \/ \E next \in KeywordThenName(line, <<"d", "e", "f">>, symbolName, 0) :
       next <= Len(line) /\ line[next] = <<"(">>
  \/ \E next \in KeywordThenName(line, <<"c", "l", "a", "s", "s">>, symbolName, 0) :
       next <= Len(line) /\ line[next] \in {<<":">>, <<"(">>}
  \/ \E i \in 1..(Len(line) - 1) :
       EndsWith(line[i], symbolName) /\ StartsWith(line[i + 1], <<"=">>)

\* the three patterns of extractGoSymbolInfo
GoMatch(line, symbolName) ==
  \/ \E skip \in {0, 1} :
       \E next \in KeywordThenName(line, <<"f", "u", "n", "c">>, symbolName, skip) :
         next <= Len(line) /\ line[next] = <<"(">>
  \/ \E next \in KeywordThenName(line, <<"t", "y", "p", "e">>, symbolName, 0) :
       next <= Len(line)
  \/ \E next \in KeywordThenName(line, <<"v", "a", "r">>, symbolName, 0) :
       next <= Len(line)

\* lines[i].includes(symbolName)
LineIncludes(line, symbolName) ==
  \E i \in 1..Len(line) : \E from \in 1..Len(line[i]) :
    /\ from + Len(symbolName) - 1 <= Len(line[i])
    /\ SubSeq(line[i], from, from + Len(symbolName) - 1) = symbolName

\* the body that the two extractors of the line tier share: the first line
\* that matches is the declaration, the other lines that include the name are
\* the usages; the patterns are made on the first line, and new RegExp throws
\* when the name does not make a regular expression
ExtractByLines(symbolName, lines, Match(_, _)) ==
  LET found == {i \in 1..Len(lines) : Match(lines[i], symbolName)}
      first == Ascending(found)[1]
      usages == Ascending({i \in 1..Len(lines) :
                             i # first /\ LineIncludes(lines[i], symbolName)})
  IN IF ~Compiles(symbolName) THEN Raises
     ELSE IF found = {} THEN Gives(Null)
     ELSE Gives([name |-> symbolName, declaration |-> lines[first],
                 usages |-> [k \in 1..Len(usages) |-> lines[usages[k]]],
                 lineNumber |-> first])

\* extractPythonSymbolInfo
ExtractPythonSymbolInfo(symbolName, fileContent) ==
  ExtractByLines(symbolName, fileContent, PythonMatch)

\* extractGoSymbolInfo
ExtractGoSymbolInfo(symbolName, fileContent) ==
  ExtractByLines(symbolName, fileContent, GoMatch)

\* extractSymbolInfo
ExtractSymbolInfo(symbolName, fileContent, language, throws) ==
  CASE language \in {"typescript", "javascript"} ->
         ExtractTsSymbolInfo(symbolName, fileContent, throws)
    [] language = "python" -> ExtractPythonSymbolInfo(symbolName, fileContent)
    [] language = "go" -> ExtractGoSymbolInfo(symbolName, fileContent)
    [] OTHER -> Gives(Null)

ErrRenameFailed == <<"Rename", "failed:">>

\* renameTsSymbol on a file whose content is the nodes `content`: `read` and `renames`
\* tell whether fs.readFile and symbol.rename succeed. The result, where the
\* declaration it renamed is, and the text it wrote.
RenameTsNode(content, oldName, newName, numbering, read, renames) ==
  LET symbols == FindSymbolNodes(content, oldName, numbering)
      text == [content EXCEPT ![symbols[1]].name = newName]
      failed(why) ==
        [result |-> Failed(<<"f1">>, oldName, newName, why), symbol |-> 0,
         written |-> None]
  IN IF ~read THEN failed(StringOf(ERead))
     ELSE IF symbols = <<>> THEN failed(ErrTsNotFound(oldName))
     ELSE IF ~renames \/ ~Compiles(oldName) \/ ~Compiles(newName)
       THEN failed(ErrRenameFailed)
     ELSE [result |-> Succeeded(<<"f1">>, oldName, newName,
                                Cardinality({i \in 1..Len(text) :
                                               Named(text[i], newName)})),
           symbol |-> symbols[1], written |-> text]

\* shouldReviewSymbol, on names of fewer than five letters that begin with
\* none of the prefixes it skips and are none of its generic names, and
\* declarations without 'import'
ShouldReviewSymbol(symbolName, declaration) == Len(symbolName) > 2

\* the variables of the other components
outsideSymbols ==
  <<renameVars, clientVars, driverVars, backendVars, diffVars, autofixVars,
    overlapVars>>

\* extractSymbolInfo is called by itself, by buildSingleContext or a test,
\* and returns or raises
ExtractSymbolCall ==
  /\ symbolCall = None
  /\ builder = None
  /\ \E language \in SupportedLanguages \cup {"unknown"}, symbolName \in SymbolNames,
        numbering \in Numberings, throws \in BOOLEAN :
       \E fileContent \in
            IF language \in {"python", "go"} THEN LineFiles ELSE TsFiles :
         /\ language \in {"python", "go", "unknown"} => ~throws
         /\ language \notin {"typescript", "javascript"} => numbering = "commented"
         /\ symbolCall' = [symbolName |-> symbolName, fileContent |-> fileContent,
                           language |-> language, numbering |-> numbering]
         /\ symbolInfo' = ExtractSymbolInfo(symbolName, fileContent, language, throws)
  /\ UNCHANGED <<tsRenamed, builder, outsideSymbols>>

\* renameTsSymbol is called for the name and the file of the context that
\* was extracted
RenameTsCall ==
  /\ symbolCall # None
  /\ symbolCall.language \in {"typescript", "javascript"}
  /\ tsRenamed = None
  /\ \E read \in BOOLEAN, renames \in BOOLEAN :
       tsRenamed' = RenameTsNode(symbolCall.fileContent, symbolCall.symbolName,
                                   <<"n">>, symbolCall.numbering, read, renames)
  /\ UNCHANGED <<symbolCall, symbolInfo, builder, outsideSymbols>>

\* buildContextsFromPR, to the loop over the identifiers of a file: they are
\* what extractIdentifiers returned, words of more than one letter
BuilderLoop ==
  /\ symbolCall = None
  /\ builder = None
  /\ \E language \in {"python", "go"}, fileContent \in LineFiles,
        found \in {<<<<"a", "b">>>>, <<<<"x", "a", "b">>, <<"a", "b">>>>} :
       builder' = [language |-> language, fileContent |-> fileContent,
                   identifiers |-> found, cursor |-> 1, pc |-> "loop",
                   contexts |-> <<>>]
  /\ UNCHANGED <<symbolCall, symbolInfo, tsRenamed, outsideSymbols>>

\* one turn of the loop: await extractSymbolInfo, `continue` without a symbol
\* or one to review, or the push of the context; an exception leaves
\* buildContextsFromPR
BuilderTurn ==
  /\ builder # None
  /\ builder.pc = "loop"
  /\ LET identifier == builder.identifiers[builder.cursor]
         info == ExtractSymbolInfo(identifier, builder.fileContent,
                                   builder.language, FALSE)
         after == IF builder.cursor < Len(builder.identifiers)
                    THEN [builder EXCEPT !.cursor = @ + 1]
                    ELSE [builder EXCEPT !.pc = "returned"]
     IN builder' =
          IF info.raised THEN [builder EXCEPT !.pc = "raised"]
          ELSE IF info.value = Null THEN after
          ELSE IF ~ShouldReviewSymbol(identifier, info.value.declaration) THEN after
          ELSE [after EXCEPT !.contexts =
                  Append(@, [oldName |-> identifier,
                             declaration |-> info.value.declaration,
                             lineNumber |-> info.value.lineNumber])]
  /\ UNCHANGED <<symbolCall, symbolInfo, tsRenamed, outsideSymbols>>

\* the extractor, the renamer of the tree tier and the builder's loop
SymbolInit ==
  /\ ToolsIdle
  /\ RenameIdle
  /\ ClientStarts(DefaultEnvironment)
  /\ DriverIdle

SymbolNext ==
  \/ ExtractSymbolCall
  \/ RenameTsCall
  \/ BuilderLoop
  \/ BuilderTurn

SymbolSpec == SymbolInit /\ [][SymbolNext]_vars

\* ------------------------------------------------- reading the histories
Returned == pc = "returned"
Target == req.filePath

Happened(op, ok) == \E i \in 1..Len(trace) : trace[i] = Did(op, ok)
Times(ops) == Cardinality({i \in 1..Len(trace) : trace[i][1] \in ops})

\* the text the backend's rename gives the target file of the call
Renamed == ReplaceAll(pre[Target], req.suggestion.oldName, req.suggestion.newName)

SameFields(a, b) ==
  /\ a.file = b.file
  /\ a.oldName = b.oldName
  /\ a.newName = b.newName
  /\ a.referencesUpdated = b.referencesUpdated

\* ------------------------------------------------------------------- C1
\* C1, as stated: whenever a call returns success:false, the target file's
\* content is its content when the call began, whichever step failed.
C1_ConservationAlways ==
  Returned /\ ~outcome.success => files[Target] = pre[Target]

\* C1, amended: whenever a call returns success:false, the target file's
\* content is its content when the call began, unless the emergency restore
\* (the copy from the backup in the catch clause) itself failed.
C1_Conservation ==
  Returned /\ ~outcome.success /\ ~Happened("emergencyCopy", FALSE)
    => files[Target] = pre[Target]

\* a verified-bad rename that changed the file, whose first restore threw and
\* whose emergency restore put the text back
C1_Witness ==
  /\ Returned
  /\ ~outcome.success
  /\ Happened("rename", TRUE)
  /\ Happened("verify", FALSE)
  /\ Happened("restore", FALSE)
  /\ Happened("emergencyCopy", TRUE)
  /\ Renamed # pre[Target]
  /\ files[Target] = pre[Target]

\* ------------------------------------------------------------------- C2
C2_Done ==
  pc = "done" =>
    /\ index = Len(results)
    /\ Len(results) <= batchSize
    /\ \A k \in 1..(Len(results) - 1) : results[k].success
    /\ Len(results) < batchSize =>
         Len(results) >= 1 /\ ~results[Len(results)].success

C2_Step ==
  pc = "returned" /\ ~outcome.success =>
    /\ pc' = "done"
    /\ results' = Append(results, outcome)
    /\ files' = files
    /\ calls' = calls
    /\ index' = index

\* C2: a batch returns exactly the outcomes up to and including the first
\* failing one (all of them when none fails), and after the failing call
\* returns batchRename starts no other call and changes no file.
C2_FailFast == [](C2_Done) /\ [][C2_Step]_vars

\* a batch of two that stopped after its first request failed
C2_Witness ==
  /\ pc = "done"
  /\ batchSize = 2
  /\ Len(results) = 1
  /\ ~results[1].success

\* ------------------------------------------------------------------- C3
\* C3, as stated: rename succeeded and verify returned false: the outcome is
\* the rename result with success:false and an error containing
\* "verification", the file is restored and the backup deleted.
C3_VerificationAlways ==
  Returned /\ Happened("rename", TRUE) /\ Happened("verify", FALSE) =>
    /\ SameFields(outcome, result)
    /\ ~outcome.success
    /\ Includes(outcome.error, "verification")
    /\ files[Target] = pre[Target]
    /\ ~Exists(files, BackupPath(Target))

\* C3, amended: rename succeeded and verify returned false: when the restore
\* and the deletion of the backup do not throw, the outcome is the rename
\* result with success:false and the error "Verification failed after
\* rename", the file is restored and the backup deleted; when one of them
\* throws, the catch clause's outcome is returned instead.
C3_Verification ==
  Returned /\ Happened("rename", TRUE) /\ Happened("verify", FALSE) =>
    IF Happened("restore", TRUE) /\ Happened("unlink", TRUE)
    THEN /\ SameFields(outcome, result)
         /\ ~outcome.success
         /\ outcome.error = <<"Verification", "failed", "after", "rename">>
         /\ files[Target] = pre[Target]
         /\ ~Exists(files, BackupPath(Target))
    ELSE /\ ~outcome.success
         /\ outcome.referencesUpdated = 0
         /\ outcome.error[1] = "Error:"

\* a rename that updated references, failed verification and was rolled back
C3_Witness ==
  /\ Returned
  /\ Happened("rename", TRUE)
  /\ Happened("verify", FALSE)
  /\ Happened("unlink", TRUE)
  /\ outcome.referencesUpdated > 0
  /\ Renamed # pre[Target]

\* ------------------------------------------------------------------- C4
\* C4, as stated: a failed backup copy returns at once with success:false,
\* referencesUpdated 0 and the error "backup failed"; nothing else ran.
C4_BackupFailedText ==
  Returned /\ Happened("backup", FALSE) =>
    /\ ~outcome.success
    /\ outcome.referencesUpdated = 0
    /\ outcome.error = <<"backup", "failed">>
    /\ trace = <<Did("backup", FALSE)>>
    /\ files[Target] = pre[Target]

\* C4, amended: a failed backup copy returns at once with success:false,
\* referencesUpdated 0 and the error "Failed to create backup"; no backend
\* rename or verify and no restore ran, and no file changed.
C4_BackupFailed ==
  Returned /\ Happened("backup", FALSE) =>
    /\ ~outcome.success
    /\ outcome.referencesUpdated = 0
    /\ outcome.error = <<"Failed", "to", "create", "backup">>
    /\ outcome.file = Target
    /\ trace = <<Did("backup", FALSE)>>
    /\ files = pre

\* a call that returned because its backup copy threw
C4_Witness ==
  /\ Returned
  /\ Happened("backup", FALSE)
  /\ thrown = <<ECopy>>

\* ------------------------------------------------------------------- C5
\* C5, as stated: a failed backend rename: the file is restored, the backup
\* deleted, verify never runs, and the backend's outcome is returned as it is.
C5_BackendFailureAlways ==
  Returned /\ Happened("rename", FALSE) =>
    /\ outcome = result
    /\ Times({"verify"}) = 0
    /\ files[Target] = pre[Target]
    /\ ~Exists(files, BackupPath(Target))

\* C5, amended: a failed backend rename: verify never runs; when the restore
\* and the deletion of the backup do not throw, the file is restored, the
\* backup deleted and the backend's outcome returned as it is; when one of
\* them throws, the catch clause's outcome is returned instead.
C5_BackendFailure ==
  Returned /\ Happened("rename", FALSE) =>
    /\ Times({"verify"}) = 0
    /\ IF Happened("restore", TRUE) /\ Happened("unlink", TRUE)
       THEN /\ outcome = result
            /\ files[Target] = pre[Target]
            /\ ~Exists(files, BackupPath(Target))
       ELSE /\ ~outcome.success
            /\ outcome.referencesUpdated = 0
            /\ outcome.error[1] = "Error:"

\* the backend found no symbol and its outcome came back
C5_Witness ==
  /\ Returned
  /\ Happened("rename", FALSE)
  /\ Happened("unlink", TRUE)
  /\ outcome = result
  /\ outcome.error = <<"Symbol", "not", "found">>

\* ------------------------------------------------------------------- C6
CommittedTrace ==
  <<Did("backup", TRUE), Did("rename", TRUE), Did("verify", TRUE), Did("unlink", TRUE)>>

Committed ==
  /\ outcome.success
  /\ Happened("rename", TRUE)
  /\ Happened("verify", TRUE)
  /\ files[Target] = Renamed
  /\ ~Exists(files, BackupPath(Target))

RolledBack ==
  /\ ~outcome.success
  /\ files[Target] = pre[Target]

C7_Terminal ==
  Returned /\ Happened("backup", TRUE) =>
    \/ Committed
    \/ RolledBack
    \/ ~outcome.success /\ Happened("emergencyCopy", FALSE)

C8_NothingTwice ==
  /\ Times({"rename"}) <= 1
  /\ Times({"verify"}) <= 1
  /\ Times({"restore", "emergencyCopy"}) <= 1
  /\ Times({"unlink", "emergencyUnlink"}) <= 1

\* C8, amended: in one call the backup, the backend rename and verify run at
\* most once each; the rollback (copy from the backup, deletion of the
\* backup) is the one thing attempted a second time, once, by the catch
\* clause, after a restore or a deletion of the try block threw.
C8_AtMostOnce ==
  /\ Times({"backup"}) <= 1
  /\ Times({"rename"}) <= 1
  /\ Times({"verify"}) <= 1
  /\ Times({"restore"}) <= 1
  /\ Times({"unlink"}) <= 1
  /\ Times({"emergencyCopy"}) <= 1
  /\ Times({"emergencyUnlink"}) <= 1
  /\ Times({"emergencyCopy"}) = 1 =>
       Happened("restore", FALSE) \/ Happened("unlink", FALSE)

\* a call that ran its rename and verify once and its restore twice
C8_Witness ==
  /\ Returned
  /\ Times({"rename"}) = 1
  /\ Times({"verify"}) = 1
  /\ Times({"restore", "emergencyCopy"}) = 2
  /\ Times({"unlink", "emergencyUnlink"}) = 1

\* ------------------------------------------------------------------- C9
InFlight ==
  pc \in {"backup", "rename", "restoreRename", "unlinkRename", "verify",
          "restoreVerify", "unlinkVerify", "unlinkCommit", "emergencyCopy",
          "emergencyUnlink"}

CallStep ==
  \/ Backup \/ Rename \/ RestoreAfterRename \/ UnlinkAfterRename \/ Verify
  \/ RestoreAfterVerify \/ UnlinkAfterVerify \/ UnlinkCommit
  \/ EmergencyCopy \/ EmergencyUnlink

WellFormed(o) ==
  /\ o.success \in BOOLEAN
  /\ o.file = Target
  /\ o.oldName = req.suggestion.oldName
  /\ o.newName = req.suggestion.newName
  /\ o.referencesUpdated \in Nat
  /\ ~o.success => "error" \in DOMAIN o /\ o.error # <<>>

\* C9, as stated: a failed call has a non-empty error, and when an exception
\* was raised during the call the error is that first exception, stringified.
C9_ErrorIsFirstException ==
  Returned /\ ~outcome.success =>
    /\ "error" \in DOMAIN outcome
    /\ outcome.error # <<>>
    /\ thrown # <<>> => outcome.error = StringOf(thrown[1])

\* C9, amended: a call in flight always has a next step and ends by returning
\* a RenameOutcome; a failed one has a non-empty error.  When an exception
\* reached the catch clause (a restore or a deletion of the try block threw)
\* the error is that exception, stringified, also when the emergency restore
\* failed after it.  A backup copy that threw gives "Failed to create backup"
\* and a verify that threw gives "Verification failed after rename".
C9_NeverRaises ==
  /\ InFlight => ENABLED CallStep
  /\ Returned =>
       /\ WellFormed(outcome)
       /\ Happened("restore", FALSE) =>
            outcome.error = <<"Error:", "EACCES:", "copyfile">>
       /\ Happened("unlink", FALSE) =>
            outcome.error = <<"Error:", "EPERM:", "unlink">>
       /\ Happened("backup", FALSE) =>
            outcome.error = <<"Failed", "to", "create", "backup">>
       /\ (/\ thrown = <<EVerify>>
           /\ Happened("restore", TRUE)) =>
            outcome.error = <<"Verification", "failed", "after", "rename">>

\* the deletion of the backup threw and then the emergency restore failed
C9_Witness ==
  /\ Returned
  /\ Happened("unlink", FALSE)
  /\ Happened("emergencyCopy", FALSE)
  /\ thrown = <<EUnlink, ECopy>>
  /\ outcome.error = StringOf(EUnlink)

\* ------------------------------------------------------------------ C10
\* C10: after a call that returns success:false every file the project had
\* before the call, the one at the sidecar path included, has the content it
\* had then (stated for the calls in which no operation threw, where the
\* rollback ran as written).
C10_WholeProject ==
  Returned /\ ~outcome.success /\ thrown = <<>> =>
    \A p \in DOMAIN pre : Exists(files, p) /\ files[p] = pre[p]

\* ------------------------------------------------------------- the client
\* a call of askLLM that got past the configuration
Asked == askPc \in {"request", "sleep", "returned"}
AskReturned == askPc = "returned"
Key == GetCacheKey(context)

\* when the call began, the cache held an entry for the context's key that was
\* not older than its ttl
LiveAtStart ==
  /\ Key \in DOMAIN start.cache
  /\ start.now - start.cache[Key].timestamp <= start.cache[Key].ttl

\* the call answered with a suggestion
Suggested == AskReturned /\ answer # Null

LastOutcome == requests[Len(requests)][2]

C12_LiveHit ==
  Asked =>
    /\ LiveAtStart =>
         /\ AskReturned
         /\ answer = start.cache[Key].suggestion
         /\ requests = <<>>
    /\ requests # <<>> => ~LiveAtStart

\* a context that never got a suggestion of its own is served the entry that
\* another context of the same key left
C12_Witness ==
  /\ AskReturned
  /\ LiveAtStart
  /\ start.fresh = None
  /\ answer = start.cache[Key].suggestion
  /\ requests = <<>>

\* C13: the requests of a call are those of the attempts 0, 1, 2, ... in order,
\* one each, at most maxRetries + 1 of them, and none follows an attempt whose
\* response parsed to a suggestion.
C13_OneRequestPerAttempt ==
  Asked =>
    /\ \A i \in 1..Len(requests) : requests[i][1] = i - 1
    /\ Len(requests) <= environment.maxRetries + 1
    /\ \A i \in 1..(Len(requests) - 1) : requests[i][2] \notin {"invalid", "suggestion"}
    /\ requests # <<>> /\ LastOutcome \in {"invalid", "suggestion"} => AskReturned
    /\ askPc = "request" => attempt = Len(requests)
    /\ ~LiveAtStart /\ AskReturned => requests # <<>>

\* the whole budget is used and the last attempt gives the suggestion
C13_Witness ==
  /\ Suggested
  /\ environment.maxRetries = MaxRetries
  /\ Len(requests) = MaxRetries + 1
  /\ LastOutcome = "suggestion"

\* C14: the waits of a call are those after the failed attempts 0, 1, ... that
\* are not the last one, the wait after attempt k being of 2^k seconds; the
\* clock of a call under way has advanced by these waits and by nothing more.
C14_Backoff ==
  Asked =>
    /\ \A i \in 1..Len(slept) :
         /\ slept[i] = <<i - 1, (2 ^ (i - 1)) * 1000>>
         /\ slept[i][1] < environment.maxRetries
         /\ requests[i][2] \in {"rejected", "empty", "unparsed"}
    /\ askPc = "request" => Len(slept) = Len(requests)
    /\ askPc = "sleep" => Len(slept) = Len(requests) - 1
    /\ AskReturned /\ requests # <<>> => Len(slept) = Len(requests) - 1
    /\ AskReturned /\ requests = <<>> => slept = <<>>
    /\ askPc \in {"request", "sleep"} =>
         now = start.now + ((2 ^ Len(slept)) - 1) * 1000

\* three failed attempts: one second, two seconds, and no wait after the last
C14_Witness ==
  /\ AskReturned
  /\ answer = Null
  /\ Len(requests) = 3
  /\ slept = <<<<0, 1000>>, <<1, 2000>>>>

C16_RejectedNotRetried ==
  /\ \A b \in BasePayloads :
       /\ \A n \in WrongNames : OutcomeOf(Answers([b EXCEPT !.newName = n])) = "invalid"
       /\ \A c \in {0, 29} : OutcomeOf(Answers([b EXCEPT !.confidence = c])) = "invalid"
       /\ \A r \in WrongRationales :
            OutcomeOf(Answers([b EXCEPT !.rationale = r])) = "invalid"
  /\ Asked =>
       /\ \A i \in 1..(Len(requests) - 1) : requests[i][2] # "invalid"
       /\ requests # <<>> /\ LastOutcome = "invalid" =>
            /\ AskReturned
            /\ answer = Null
            /\ Len(slept) = Len(requests) - 1
            /\ apiCalls = start.apiCalls
            /\ Key \notin DOMAIN responseCache
            /\ logged = <<>>

\* the first attempt of a budget of three is refused, and the call is over
C16_Witness ==
  /\ AskReturned
  /\ environment.maxRetries = MaxRetries
  /\ requests = <<<<0, "invalid">>>>
  /\ answer = Null
  /\ slept = <<>>

\* the invariants of a NamingSuggestion
NamingSuggestionHolds(s) ==
  /\ s.oldName # s.newName
  /\ s.newName # <<>>
  /\ s.newName[1] \notin {"1", "-"}
  /\ \A i \in 1..Len(s.newName) : s.newName[i] # "-"
  /\ s.confidence >= 0
  /\ s.confidence <= 100
  /\ Len(s.rationale) >= 10
  /\ Len(s.alternatives) >= 1
  /\ Len(s.alternatives) <= 5

\* C17: every suggestion that askLLM returns, and every suggestion in the
\* cache, satisfies the invariants of a NamingSuggestion; a payload outside
\* the schema's ranges does not even parse.
C17_SuggestionInvariants ==
  /\ Suggested => NamingSuggestionHolds(answer)
  /\ \A k \in DOMAIN responseCache : NamingSuggestionHolds(responseCache[k].suggestion)
  /\ \A b \in BasePayloads :
       /\ \A c \in {-5, 105} : OutcomeOf(Answers([b EXCEPT !.confidence = c])) = "unparsed"
       /\ \A a \in WrongAlternatives :
            OutcomeOf(Answers([b EXCEPT !.alternatives = a])) = "unparsed"

\* a suggestion at the edges of the rules, served from the cache
C17_Witness ==
  /\ Suggested
  /\ requests = <<>>
  /\ answer.newName = <<"_", "$", "1">>
  /\ answer.confidence = 100
  /\ Len(answer.alternatives) = 5

\* ------------------------------------------------------------ the drivers
\* the calls of the run so far that are calls of op
StepsOf(op) == {i \in 1..Len(steps) : steps[i][1] = op}

InList(entry, list) == \E i \in 1..Len(list) : list[i] = entry

\* the rule of the safety gate
GateRule(s) ==
  s.confidence >= 85 /\ s.safety.shouldAutofix = TRUE /\ s.safety.isApiSurface = FALSE

\* suggestions of every confidence and safety analysis
GateInputs ==
  {[b EXCEPT !.confidence = c, !.safety = s] :
     b \in BasePayloads, c \in {0, 30, 84, 85, 86, 100}, s \in Safeties}

C19_OnlyCollectedAndGated ==
  /\ \A s \in DriverPayloads \cup {Null} :
       Collects(s) <=> (s # Null /\ s.confidence >= 30)
  /\ \A i \in 1..Len(allSuggestions) :
       /\ allSuggestions[i].suggestion # Null
       /\ allSuggestions[i].suggestion.confidence >= 30
  /\ \A i \in StepsOf("formatSuggestionComment") :
       InList(steps[i][2].entry, allSuggestions)
  /\ \A i \in StepsOf("shouldAutoRename") : InList(steps[i][2], allSuggestions)
  /\ \A i \in StepsOf("performSafeRename") :
       /\ mode = "autofix"
       /\ InList(steps[i][2], allSuggestions)
       /\ GateRule(steps[i][2].suggestion)
  /\ mode = "review" =>
       StepsOf("shouldAutoRename") \cup StepsOf("performSafeRename")
         \cup StepsOf("commitChanges") = {}

\* a finished autofix run over two contexts: one suggestion was not
\* collected, the other was collected, renamed and commented on
C19_Witness ==
  /\ runPc = "done"
  /\ mode = "autofix"
  /\ Cardinality(StepsOf("askLLM")) = 2
  /\ Len(allSuggestions) = 1
  /\ Cardinality(StepsOf("performSafeRename")) = 1
  /\ Cardinality(StepsOf("formatSuggestionComment")) = 1

\* the pull request comes from another repository than the one it is made to
FromFork(data) == data.headRepo = NoRepo \/ ~data.headRepo.same

\* C20: in runAutofix, when the pull request is from a fork or lacks the label
\* auto-naming-fix, no suggestion is requested, performSafeRename is never
\* called and commitChanges is never called.
C20_NoAutofixOnForks ==
  mode = "autofix"
    /\ (FromFork(pull) \/ \A i \in 1..Len(pull.labels) : pull.labels[i] # AUTOFIX_LABEL) =>
    StepsOf("askLLM") \cup StepsOf("performSafeRename") \cup StepsOf("commitChanges") = {}

\* the run ended on the error of the missing BLACKBOX_API_KEY
KeyErrorRaised ==
  /\ runPc = "failed"
  /\ ~environment.apiKey
  /\ steps # <<>>
  /\ steps[Len(steps)][1] = "askLLM"

\* C21: in a run of runReview or runAutofix without BLACKBOX_API_KEY, the
\* error of the missing key is raised before the pull request is fetched and
\* before any context is built; no run without the key does either.
C21_RaisedAtStartup ==
  /\ KeyErrorRaised =>
       StepsOf("getPullRequest") \cup StepsOf("buildContextsFromPR")
         \cup StepsOf("getExistingComments") = {}
  /\ ~environment.apiKey =>
       StepsOf("getPullRequest") \cup StepsOf("buildContextsFromPR") = {}

\* ------------------------------------------------------ the cost statistics
IsReport(r) == r \notin {None, Zeroed}

\* a / b <= c / d
RateLe(a, b) == a.num * b.den <= b.num * a.den

CountersGrow(earlier, later) ==
  /\ earlier.totalTokens <= later.totalTokens
  /\ earlier.estimatedCost <= later.estimatedCost
  /\ earlier.apiCalls <= later.apiCalls

\* C22, as stated: from one report of getCostStats to the next, with no
\* resetCostStats between them, none of totalTokens, estimatedCost, apiCalls
\* and cacheHitRate decreases.
C22_AllMonotone ==
  [][IsReport(reported) /\ IsReport(reported') =>
       /\ CountersGrow(reported, reported')
       /\ RateLe(reported.cacheHitRate, reported'.cacheHitRate)]_vars

\* C22, amended: from one report of getCostStats to the next, with no
\* resetCostStats between them, none of totalTokens, estimatedCost and
\* apiCalls decreases; cacheHitRate is computed at each report as the number
\* of cache entries over apiCalls plus that number (0 when both are 0), lies
\* between 0 and 1 and may decrease; the counters kept decrease only in
\* resetCostStats, which sets totalTokens, estimatedCost, apiCalls and the
\* cacheHitRate kept to 0.
C22_CountersMonotone ==
  [][/\ IsReport(reported) /\ IsReport(reported') => CountersGrow(reported, reported')
     /\ IsReport(reported') /\ reported' # reported =>
          LET size == Cardinality(DOMAIN responseCache)
              rate == reported'.cacheHitRate
          IN /\ reported'.apiCalls = apiCalls
             /\ reported'.totalTokens = totalTokens
             /\ reported'.estimatedCost = estimatedCost
             /\ rate.num * (apiCalls + size) = size * rate.den
             /\ apiCalls + size = 0 => rate.num = 0
             /\ 0 <= rate.num /\ rate.num <= rate.den
     /\ (apiCalls' < apiCalls \/ totalTokens' < totalTokens
           \/ estimatedCost' < estimatedCost) =>
          /\ apiCalls' = 0
          /\ totalTokens' = 0
          /\ estimatedCost' = 0
          /\ cacheHitRate'.num = 0
          /\ reported' = Zeroed]_vars

\* a report after two requests that gave a suggestion, one of them with its
\* usage stated, and with one of the two entries gone from the cache
C22_Witness ==
  /\ IsReport(reported)
  /\ reported.apiCalls = 2
  /\ reported.totalTokens = 3
  /\ reported.estimatedCost = 90
  /\ reported.cacheHitRate = Ratio(1, 3)

\* C23: an entry of the cache is never changed while it is present; a request
\* that gave a suggestion inserts the entry of its key when the cache has none
\* for it, with the time of the insert and the TTL of one hour; an entry leaves
\* the cache only in clearCache, or in the lookup of a call for its key that
\* finds it older than its TTL.
C23_InsertOrDelete ==
  [][/\ \A k \in DOMAIN responseCache \cap DOMAIN responseCache' :
          responseCache'[k] = responseCache[k]
     /\ \A k \in DOMAIN responseCache' \ DOMAIN responseCache :
          /\ askPc = "request"
          /\ k = GetCacheKey(context)
          /\ responseCache'[k] =
               [suggestion |-> answer', timestamp |-> now, ttl |-> CACHE_TTL]
     /\ apiCalls' = apiCalls + 1 =>
          /\ GetCacheKey(context) \notin DOMAIN responseCache
          /\ GetCacheKey(context) \in DOMAIN responseCache'
     /\ \A k \in DOMAIN responseCache \ DOMAIN responseCache' :
          \/ asks' = asks /\ askPc' = "idle" /\ responseCache' = << >>
          \/ /\ asks' = asks + 1
             /\ k = GetCacheKey(context')
             /\ now - responseCache[k].timestamp > responseCache[k].ttl
             /\ responseCache[k].ttl = CACHE_TTL]_vars

\* a call found the entry of its key expired, evicted it, and its request
\* inserted a new one
C23_Witness ==
  /\ AskReturned
  /\ Key \in DOMAIN start.cache
  /\ ~LiveAtStart
  /\ Key \in DOMAIN responseCache
  /\ responseCache[Key].timestamp = now
  /\ responseCache[Key].timestamp > start.cache[Key].timestamp + CACHE_TTL

\* ------------------------------------------------- the backends' renames
\* the call went to the fallback, and has returned
FellBack == toolRan # None /\ ~toolRan.installed

OldName == job.request.suggestion.oldName
NewName == job.request.suggestion.newName
JobPath == job.request.filePath

\* the whole-word occurrences of oldName in the file when the call is made
Occurrences ==
  IF Exists(job.files, JobPath) THEN CountMatches(job.files[JobPath], OldName) ELSE 0

\* C24, as stated: when the file has an occurrence of oldName and can be read
\* and written, the fallback returns success:true with referencesUpdated the
\* number of occurrences of newName in the file after the substitution.
C24_CountsNewName ==
  FellBack /\ Occurrences > 0 =>
    \/ ~toolRan.ran.result.success
         /\ toolRan.ran.result.error \in {StringOf(ERead), StringOf(EWrite)}
    \/ /\ toolRan.ran.result.success
       /\ toolRan.ran.result.referencesUpdated =
            CountMatches(toolRan.ran.files[JobPath], NewName)

\* C24, amended: when the file has no occurrence of oldName the fallback
\* returns success:false and leaves every file as it was, with the error
\* 'Symbol not found' when it could read the file; when it has occurrences the
\* fallback either fails on reading or writing the file, or replaces every
\* occurrence in this file and in no other, returns success:true, and
\* referencesUpdated is the number of occurrences of oldName that were in the
\* file before the substitution.
C24_CountsReplaced ==
  FellBack =>
    LET r == toolRan.ran.result
        after == toolRan.ran.files
    IN /\ Occurrences = 0 =>
            /\ ~r.success
            /\ after = job.files
            /\ r.referencesUpdated = 0
            /\ Exists(job.files, JobPath) =>
                 r.error \in {ErrSymbolNotFound, StringOf(ERead)}
       /\ ~r.success /\ r.error = ErrSymbolNotFound =>
            Occurrences = 0 /\ after = job.files
       /\ Occurrences > 0 =>
            \/ ~r.success /\ r.error \in {StringOf(ERead), StringOf(EWrite)}
            \/ /\ r.success
               /\ after[JobPath] = ReplaceAll(job.files[JobPath], OldName, NewName)
               /\ CountMatches(after[JobPath], OldName) = 0
               /\ \A p \in DOMAIN job.files \ {JobPath} : after[p] = job.files[p]
               /\ DOMAIN after = DOMAIN job.files
               /\ r.referencesUpdated = Occurrences

\* the fallback renamed a to b in a file that already had a b: one reference
\* updated, two occurrences of the new name
C24_Witness ==
  /\ FellBack
  /\ job.request.language = "go"
  /\ toolRan.ran.result.success
  /\ toolRan.ran.result.referencesUpdated = 1
  /\ CountMatches(toolRan.ran.files[JobPath], NewName) = 2

\* C25: when the tool is not installed, the backend's rename returns what the
\* fallback rename returns on the same file and names, it does not fail for
\* the missing tool, and the only command executed is the probe for the tool.
C25_FallsBack ==
  FellBack =>
    LET r == job.request
        fallbacks ==
          IF r.language = "python"
            THEN {FallbackPythonRename(job.files, r.filePath, r.suggestion.oldName,
                                       r.suggestion.newName, env) : env \in FallbackEnv}
            ELSE {FallbackGoRename(job.files, r.filePath, r.suggestion.oldName,
                                   r.suggestion.newName, env) : env \in FallbackEnv}
    IN /\ toolRan.ran \in fallbacks
       /\ toolRan.ran.result.success \/ toolRan.ran.result.error # StringOf(ETool)
       /\ commands = <<ProbeCommand(r.language)>>

\* rope is missing and the Python rename succeeded by the fallback
C25_Witness ==
  /\ FellBack
  /\ job.request.language = "python"
  /\ toolRan.ran.result.success
  /\ toolRan.ran.result.referencesUpdated = 2
  /\ commands = <<ProbeCommand("python")>>

\* ------------------------------------------------------------ the batch
\* a rename transaction is in flight
InTransaction == req # None

HunkHeaderBefore(lines, i) ==
  LET headers == {j \in 1..(i - 1) :
                    StartsWith(lines[j], <<"@", "@">>) /\ PlusMatch(lines[j]) # 0}
  IN IF headers = {} THEN 0 ELSE CHOOSE j \in headers : \A k \in headers : k <= j

\* the number that line i of a diff has in the new version of the file: the
\* start line of its hunk and one more for each added line and each context
\* line of the hunk before it
NewFileLine(lines, i) ==
  LET header == HunkHeaderBefore(lines, i)
  IN ParseDigits(lines[header], PlusMatch(lines[header]) + 1, 0)
       + Cardinality({j \in (header + 1)..(i - 1) :
                        /\ ~StartsWith(lines[j], <<"@", "@">>)
                        /\ \/ StartsWith(lines[j], <<"+">>)
                           \/ StartsWith(lines[j], <<" ">>)})

ParseReturned == parseCall # None /\ prDiff # None /\ prDiff # Null

\* C27: each addition that parseDiff records is an added line of a hunk of
\* the diff and carries the number that this line has in the new version of
\* the file.
C27_NewFileLineNumbers ==
  ParseReturned =>
    \A k \in 1..Len(prDiff.additions) :
      \E i \in 1..Len(parseCall.diffText) :
        /\ HunkHeaderBefore(parseCall.diffText, i) # 0
        /\ parseCall.diffText[i] = <<"+">> \o prDiff.additions[k].content
        /\ prDiff.additions[k].line = NewFileLine(parseCall.diffText, i)

\* the extension of a path: the text after its last '.', nothing when the
\* path has no '.'
Extension(filePath) ==
  IF \E i \in 1..Len(filePath) : filePath[i] = "." THEN LastPiece(filePath) ELSE <<>>

\* the language of each extension
LanguageOf(extension) ==
  CASE extension \in {<<"t", "s">>, <<"t", "s", "x">>} -> "typescript"
    [] extension \in {<<"j", "s">>, <<"j", "s", "x">>} -> "javascript"
    [] extension = <<"p", "y">> -> "python"
    [] extension = <<"g", "o">> -> "go"
    [] OTHER -> NoLanguage

\* C28: the language of a path is the language of its extension, whatever
\* the case of the letters, and parseDiff returns null, whatever the diff
\* text, exactly for the paths whose extension has no language.
C28_ByExtension ==
  (parseCall # None /\ prDiff # None) =>
    LET language == LanguageOf(ToLowerCase(Extension(parseCall.filePath)))
    IN /\ DetectLanguage(parseCall.filePath) = language
       /\ (prDiff = Null) <=> (language = NoLanguage)
       /\ prDiff # Null => prDiff.language = language

ExtractReturned == extractCall # None

\* the names that the patterns of the language capture in the code
CapturedNames ==
  LET captured == Captured(extractCall.code, extractCall.language)
  IN {captured[k] : k \in 1..Len(captured)}

NoDuplicates(names) ==
  \A i, j \in 1..Len(names) : names[i] = names[j] => i = j

\* C29 as stated: extractIdentifiers returns no name twice, no name of one
\* character or less and no word of the keyword list, and returns every
\* captured name of two characters or more that is not a word of the keyword
\* list.
C29_DenylistAsWritten ==
  ExtractReturned =>
    /\ NoDuplicates(identifiers)
    /\ \A k \in 1..Len(identifiers) :
         Len(identifiers[k]) > 1 /\ identifiers[k] \notin Keywords
    /\ \A name \in CapturedNames :
         (Len(name) > 1 /\ name \notin Keywords) =>
           \E k \in 1..Len(identifiers) : identifiers[k] = name

\* C29 (amended): extractIdentifiers returns no name twice, no name of one
\* character or less and no name that is a word of the keyword list once put
\* in lower case, and returns every other captured name.
C29_Filtered ==
  ExtractReturned =>
    /\ NoDuplicates(identifiers)
    /\ \A k \in 1..Len(identifiers) :
         /\ Len(identifiers[k]) > 1
         /\ ToLowerCase(identifiers[k]) \notin Keywords
         /\ identifiers[k] \in CapturedNames
    /\ \A name \in CapturedNames :
         (Len(name) > 1 /\ ToLowerCase(name) \notin Keywords) =>
           \E k \in 1..Len(identifiers) : identifiers[k] = name

\* a name that two patterns capture is returned once
C29_Witness ==
  /\ ExtractReturned
  /\ LET captured == Captured(extractCall.code, extractCall.language)
     IN \E i, j \in 1..Len(captured) :
          /\ i # j /\ captured[i] = captured[j]
          /\ identifiers = <<captured[i]>>

\* ------------------------------------------------------------------- C30
\* the error that the catch clause gets for each outcome of a failed attempt
ErrorOf(failure) ==
  CASE failure = "rejected" -> ERequest
    [] failure = "empty" -> EEmpty
    [] failure = "unparsed" -> EInvalidJson

\* C30: a response without content, one that is no JSON and one that is JSON
\* outside the schema fail the attempt as a rejected request does. Whatever
\* the failure, the attempt is the one the loop counts, nothing is cached or
\* counted, and the call goes on to the backoff wait while the attempt is
\* below maxRetries and returns null when it is attempt maxRetries; the wait
\* is followed by the request of the next attempt and by nothing else.
C30_OneRetryLoop ==
  /\ [](/\ OutcomeOf([rejected |-> TRUE]) = "rejected"
        /\ OutcomeOf([rejected |-> FALSE, content |-> <<>>]) = "empty"
        /\ OutcomeOf([rejected |-> FALSE, content |-> <<Prose>>]) = "unparsed"
        /\ OutcomeOf(Answers(Incomplete)) = "unparsed"
        /\ \A b \in BasePayloads :
             /\ OutcomeOf(Answers([b EXCEPT !.confidence = 105])) = "unparsed"
             /\ OutcomeOf(Answers([b EXCEPT !.alternatives = AlternativesOf(0)]))
                  = "unparsed")
  /\ [][/\ (askPc = "request" /\ Len(requests') = Len(requests) + 1
              /\ requests'[Len(requests')][2] \in {"rejected", "empty", "unparsed"}) =>
             /\ requests'[Len(requests')][1] = attempt
             /\ lastError' = ErrorOf(requests'[Len(requests')][2])
             /\ apiCalls' = apiCalls
             /\ responseCache' = responseCache
             /\ slept' = slept
             /\ IF attempt < environment.maxRetries
                  THEN askPc' = "sleep" /\ attempt' = attempt /\ answer' = answer
                  ELSE askPc' = "returned" /\ answer' = Null
        /\ askPc = "sleep" =>
             /\ askPc' = "request"
             /\ attempt' = attempt + 1
             /\ attempt' <= environment.maxRetries
             /\ slept' = Append(slept, <<attempt, (2 ^ attempt) * 1000>>)
             /\ requests' = requests]_vars

\* a call of three attempts that failed in the three ways returns null
C30_Witness ==
  /\ AskReturned
  /\ answer = Null
  /\ environment.maxRetries = MaxRetries
  /\ requests = <<<<0, "unparsed">>, <<1, "empty">>, <<2, "rejected">>>>
  /\ Len(slept) = MaxRetries

\* ------------------------------------------------------------------- C37
\* C37, as stated: after a call that made its backup has returned, no file is
\* at the sidecar path.
C37_NoBackupLeftAlways ==
  Returned /\ Happened("backup", TRUE) => ~Exists(files, BackupPath(Target))

\* C37, amended: after a call has returned, the backup it made is gone unless
\* the restore copy or the unlink of the catch clause failed; a call whose
\* backup copy failed leaves the file system, the sidecar path included, as
\* it was.
C37_NoBackupLeft ==
  Returned =>
    /\ Happened("backup", FALSE) => files = pre
    /\ Happened("backup", TRUE) /\ Exists(files, BackupPath(Target)) =>
         \/ Happened("emergencyCopy", FALSE)
         \/ Happened("emergencyUnlink", FALSE)
    /\ outcome.success => ~Exists(files, BackupPath(Target))

\* the unlink of the try block threw after a failed rename, and the catch
\* clause restored the file again and removed the backup
C37_Witness ==
  /\ Returned
  /\ Happened("rename", FALSE)
  /\ Happened("unlink", FALSE)
  /\ Happened("emergencyUnlink", TRUE)
  /\ ~Exists(files, BackupPath(Target))

OrchestratorSteps ==
  {"backup", "restoreRename", "unlinkRename", "verify", "restoreVerify",
   "unlinkVerify", "unlinkCommit", "emergencyCopy", "emergencyUnlink"}

C33_AutofixFailFast ==
  mode = "autofix" =>
    \A i \in 1..(Len(renameResults) - 1) : renameResults[i].success

\* ------------------------------------------------------------------- C39
\* the files of the renames of the loop that succeeded
RenamedFiles == {results[i].file : i \in {j \in 1..Len(results) : results[j].success}}

C34_CountsEveryRequest ==
  Asked => apiCalls = start.apiCalls + Len(requests)

\* ------------------------------------------------------------------- C35
\* the positions of `whole` that `part` is made of, when it is a sub-list
IsSubList(part, whole) ==
  \E at \in [1..Len(part) -> 1..Len(whole)] :
    /\ \A i \in 1..Len(part) : part[i] = whole[at[i]]
    /\ \A i, j \in 1..Len(part) : i < j => at[i] < at[j]

\* C35: an addition is among the modifications if and only if a deletion of
\* the diff has a line number that differs from its own by 2 at most, and
\* the modifications are a sub-list of the additions, in their order.
C35_Modifications ==
  ParseReturned =>
    /\ \A k \in 1..Len(prDiff.additions) :
         (\E m \in 1..Len(prDiff.modifications) :
            prDiff.modifications[m] = prDiff.additions[k])
         <=> (\E d \in 1..Len(prDiff.deletions) :
                /\ prDiff.deletions[d].line - prDiff.additions[k].line \in -2..2)
    /\ IsSubList(prDiff.modifications, prDiff.additions)

\* a removed line and the added line that took its place
C35_Witness ==
  /\ ParseReturned
  /\ Len(prDiff.deletions) = 1
  /\ Len(prDiff.additions) = 2
  /\ prDiff.additions[1].line = prDiff.deletions[1].line
  /\ prDiff.modifications = prDiff.additions

\* ------------------------------------------------------------------- C36
\* C36: a suggestion that askLLM returns for a context, from the service or
\* from the cache, has the context's oldName as its oldName.
C36_AboutTheContext ==
  Suggested => answer.oldName = context.oldName

\* ------------------------------------------------------------------ C40
\* two calls of askLLM with the same cache key, the later begun while the
\* earlier was suspended
Overlapping(i, j) ==
  /\ i \in flights[j].during
  /\ GetCacheKey(flights[i].context) = GetCacheKey(flights[j].context)

Sum(field, i, j) == flights[i][field] + flights[j][field]

\* C40, as stated: when two askLLM calls for the same cache key overlap, at
\* most one external request is issued for the key, the cache entry is written
\* once and apiCalls grows by one.
C40_Deduplicated ==
  \A j \in 1..Len(flights) : \A i \in 1..Len(flights) :
    Overlapping(i, j) =>
      /\ Sum("sent", i, j) <= 1
      /\ Sum("wrote", i, j) <= 1
      /\ Sum("counted", i, j) <= 1

\* C40: overlapping askLLM calls are not de-duplicated. Every call that
\* misses the cache at its start issues its own requests, at most
\* maxRetries + 1 of them, whatever another call for the same cache key is
\* doing; every call that gets a valid suggestion from a request writes the
\* cache entry and adds one to apiCalls, once; a call that hits the cache
\* issues no request; and apiCalls is the number of calls that got a
\* suggestion from a request.
C40_PerCall ==
  /\ \A p \in 1..Len(flights) :
       LET f == flights[p]
           served == f.pc = "returned" /\ f.answer # Null /\ ~f.hit
       IN /\ f.sent <= environment.maxRetries + 1
          /\ f.wrote = (IF served THEN 1 ELSE 0)
          /\ f.counted = f.wrote
          /\ f.hit => f.sent = 0
          /\ served => GetCacheKey(f.context) \in DOMAIN responseCache
          /\ (Running(f) /\ f.pc = "request") => f.sent = f.attempt
  /\ apiCalls = Cardinality({p \in 1..Len(flights) : flights[p].counted = 1})

\* two overlapping calls for one cache key have both got a suggestion from a
\* request of their own: two cache writes, apiCalls is two
C40_Witness ==
  /\ Len(flights) = 2
  /\ Overlapping(1, 2)
  /\ flights[1].wrote = 1
  /\ flights[2].wrote = 1
  /\ apiCalls = 2

\* ------------------------------------------------------------------ C31
\* extractTsSymbolInfo found a declaration of the name, and renameTsSymbol
\* has read the same file for the same name
BothLooked ==
  /\ tsRenamed # None
  /\ symbolInfo.value # Null
  /\ tsRenamed.result.success \/ tsRenamed.result.error # StringOf(ERead)

\* C31, as stated: for every file and name for which extractTsSymbolInfo
\* finds a declaration, renameTsSymbol finds that same first declaration and
\* does not answer that the symbol was not found.
C31_SameDeclaration ==
  BothLooked =>
    /\ tsRenamed.result.success \/ tsRenamed.result.error # ErrTsNotFound(symbolCall.symbolName)
    /\ tsRenamed.result.success => tsRenamed.symbol = symbolInfo.value.lineNumber

\* ------------------------------------------------------------------ C32
\* C32, as stated: extractSymbolInfo never raises, for every language and
\* every name and file text, and the loop of the context builder goes on to
\* the next identifier.
C32_NeverRaises ==
  /\ symbolCall # None => ~symbolInfo.raised
  /\ builder # None => builder.pc # "raised"

====
